---- MODULE Spec2Model ----
(***************************************************************************)
(* Semantic pattern validation of TONTO models (src/semantic/semantic.py). *)
(*                                                                         *)
(* A model (AST) is a list of declarations.  run_semantic_checks builds    *)
(* one symbol table and runs six pattern checkers over it in a fixed       *)
(* order, concatenating their found records and diagnostics.               *)
(*                                                                         *)
(* Representation of Python values:                                        *)
(*   - a dict with optional keys is a record with every field, plus the    *)
(*     sets `absent` (keys that are missing) and `null` (keys whose value  *)
(*     is None);                                                           *)
(*   - a reference to a declaration object is its index in the list;       *)
(*   - an insertion-ordered dict is a sequence of [k, v] entries;          *)
(*   - a line number of None is 0;  a string of None is "None";            *)
(*   - a formatted message is its template key and its arguments;          *)
(*   - an exception leaving a function is the flag `raised`.               *)
(***************************************************************************)
EXTENDS Integers, Sequences, FiniteSets, TLC

VARIABLES ast, table, pc, all_found, all_errors, raised, hashSeed, prev, output, tasks,
          lexer, scan

vars == <<ast, table, pc, all_found, all_errors, raised, hashSeed, prev, output, tasks,
          lexer, scan>>

(***************************************************************************)
(* Bounds of the explored models.                                          *)
(***************************************************************************)
MaxClasses == 3

MaxGensets == 2

MaxRelators == 2

MaxRelations == 1

MaxMembers == 3

MaxChars == 3

MaxRuns == 2

(***************************************************************************)
(* Generic sequence and set helpers.                                       *)
(***************************************************************************)
None == "None"

Range(s) == {s[i] : i \in 1..Len(s)}

Indices(s) == [i \in 1..Len(s) |-> i]

SeqsUpTo(U, n) == UNION {[1..k -> U] : k \in 0..n}

\* Names in the order Python's sorted() puts them (code point order).
NameOrder == <<"A", "B", "C", "D", "E", "F", "G1", "G2", "G3", "G4", "K", "K2", "M", "N",
              "R1", "R2", "R3", "R4">>

Sorted(S) == SelectSeq(NameOrder, LAMBDA n : n \in S)

\* Iteration order of a set of str: it follows the strings' hashes, which the
\* interpreter salts per process.  Two seeds stand for the possible orders.
HashSeeds == {"ascending", "descending"}

Reverse(s) == [i \in 1..Len(s) |-> s[Len(s) + 1 - i]]

SetIteration(S, seed) == IF seed = "ascending" THEN Sorted(S) ELSE Reverse(Sorted(S))

(***************************************************************************)
(* dict.get: a key that is absent or None reads as None.                   *)
(***************************************************************************)
IsNone(d, k) == k \in d.absent \/ k \in d.null

\* node.get("lineno"): the line, None (0) when missing or null
GetLineno(d) == IF IsNone(d, "lineno") THEN 0 ELSE d.lineno

\* node.get("lineno", fallback): the fallback only when the key is absent
GetLinenoOr(d, fallback) ==
    IF "lineno" \in d.absent THEN fallback
    ELSE IF "lineno" \in d.null THEN 0 ELSE d.lineno

safe_lineno(d, fallback) == GetLinenoOr(d, fallback)

\* ensure_list(x): None becomes the empty list
ensure_list(d, k) == IF IsNone(d, k) THEN <<>> ELSE d[k]

\* d.get(k, []) that is then iterated, or passed to set() or len(): None raises TypeError
GetListRaises(d, k) == k \in d.null

GetList(d, k) == IF k \in d.absent THEN <<>> ELSE d[k]

\* d.get("name", "N/A")
GetNameOrNA(d) ==
    IF "name" \in d.absent THEN "N/A" ELSE IF "name" \in d.null THEN None ELSE d.name

Truthy(s) == s # None /\ s # ""

GetStr(d, k) == IF IsNone(d, k) THEN None ELSE d[k]

(***************************************************************************)
(* Insertion-ordered dicts, as sequences of [k |-> key, v |-> value].      *)
(***************************************************************************)
DictKeys(d) == {d[i].k : i \in 1..Len(d)}

DictGet(d, key) == (CHOOSE e \in Range(d) : e.k = key).v

KeySeq(d) == [i \in 1..Len(d) |-> d[i].k]

\* The dict built by `for i in idxs: d[key(i)] = val(i)`: keys in order of first
\* insertion, each holding the value assigned last.
DictOf(idxs, key(_), val(_)) ==
    LET first == SelectSeq(Indices(idxs),
                     LAMBDA p : \A q \in 1..(p - 1) : key(idxs[q]) # key(idxs[p]))
        last(kk) == CHOOSE p \in 1..Len(idxs) :
                        /\ key(idxs[p]) = kk
                        /\ \A q \in (p + 1)..Len(idxs) : key(idxs[q]) # kk
    IN  [j \in 1..Len(first) |->
            [k |-> key(idxs[first[j]]), v |-> val(idxs[last(key(idxs[first[j]]))])]]

\* The defaultdict(list) built by `for (k, x) in pairs: d[k].append(x)`, read with
\* d.get(key, []).
AppendMapGet(pairs, key) ==
    LET hits == SelectSeq(pairs, LAMBDA p : p[1] = key)
    IN  [j \in 1..Len(hits) |-> hits[j][2]]

Flatten(ss) ==
    LET RECURSIVE F(_)
        F(i) == IF i > Len(ss) THEN <<>> ELSE ss[i] \o F(i + 1)
    IN  F(1)

(***************************************************************************)
(* Declarations of the model.                                              *)
(***************************************************************************)
Declarations(a) == IF "declarations" \in a.absent THEN <<>> ELSE a.declarations

\* mutant: the declarations are read with ast["declarations"], a KeyError when missing
DeclarationsRaise_missing(a) == "declarations" \in a.null \/ "declarations" \in a.absent

\* `for decl in ast.get("declarations", [])` raises TypeError on None
DeclarationsRaise(a) == "declarations" \in a.null

IsClass(d) == d.type = "ClassDeclaration"

IsGenset(d) == d.type = "GeneralizationSet"

ClassIdxs(decls) == SelectSeq(Indices(decls), LAMBDA i : IsClass(decls[i]))

StereoIdxs(decls, st) ==
    SelectSeq(Indices(decls), LAMBDA i : IsClass(decls[i]) /\ GetStr(decls[i], "stereotype") = st)

\* {name -> decl} of the classes of one stereotype, as a checker collects it from the AST
\* (kinds[name] = decl, without looking at the name)
CollectByStereotype(decls, st) ==
    DictOf(StereoIdxs(decls, st), LAMBDA i : GetStr(decls[i], "name"), LAMBDA i : i)

\* (super, sub) pairs in the order `specializes_map[super].append(name)` runs
SpecializesPairs(decls, idxs) ==
    Flatten([j \in 1..Len(idxs) |->
        LET d == decls[idxs[j]]
            sups == GetList(d, "specializes")
        IN  [m \in 1..Len(sups) |-> <<sups[m], GetStr(d, "name")>>]])

\* gensets_by_general[general]: the gensets naming `general`, in declaration order
GensetsByGeneral(decls, general) ==
    SelectSeq(Indices(decls),
        LAMBDA i : /\ IsGenset(decls[i])
                   /\ Truthy(GetStr(decls[i], "general"))
                   /\ GetStr(decls[i], "general") = general)

(***************************************************************************)
(* Results of a checker: found records, diagnostics, and whether it raised. *)
(***************************************************************************)
NoResult == [found |-> <<>>, errors |-> <<>>, raised |-> FALSE]

Raise == [found |-> <<>>, errors |-> <<>>, raised |-> TRUE]

\* The results of consecutive loop iterations; an exception in one loses them all.
Concat(rs) ==
    IF \E i \in 1..Len(rs) : rs[i].raised THEN Raise
    ELSE [found  |-> Flatten([i \in 1..Len(rs) |-> rs[i].found]),
          errors |-> Flatten([i \in 1..Len(rs) |-> rs[i].errors]),
          raised |-> FALSE]

Msg(key, args) == [key |-> key, args |-> args]

(***************************************************************************)
(* build_symbol_table                                                      *)
(***************************************************************************)
Stereotypes == {"kind", "subkind", "role", "phase", "mode", "relator", "roleMixin"}

\* the classes the builder indexes: `if name:`
NamedClassIdxs(decls) ==
    SelectSeq(ClassIdxs(decls), LAMBDA i : Truthy(GetStr(decls[i], "name")))

\* the (super, sub) pairs of the builder: ensure_list(decl.get("specializes"))
TablePairs(decls) ==
    LET idxs == NamedClassIdxs(decls)
    IN  Flatten([j \in 1..Len(idxs) |->
            LET d == decls[idxs[j]]
                sups == ensure_list(d, "specializes")
            IN  [m \in 1..Len(sups) |-> <<sups[m], d.name>>]])

\* keys: the keys the two defaultdicts hold
EmptyTable ==
    [classes |-> <<>>, classes_by_stereotype |-> [st \in Stereotypes |-> <<>>],
     gensets |-> <<>>, specializes_map |-> <<>>,
     keys |-> [classes_by_stereotype |-> {}, specializes_map |-> {}], built |-> FALSE]

build_symbol_table(a) ==
    LET decls == Declarations(a)
        named == NamedClassIdxs(decls)
    IN  [classes |-> DictOf(named, LAMBDA i : decls[i].name, LAMBDA i : i),
         classes_by_stereotype |->
            [st \in Stereotypes |->
                DictOf(SelectSeq(named, LAMBDA i : GetStr(decls[i], "stereotype") = st),
                       LAMBDA i : decls[i].name, LAMBDA i : i)],
         gensets |-> SelectSeq(Indices(decls), LAMBDA i : IsGenset(decls[i])),
         specializes_map |-> TablePairs(decls),
         keys |-> [classes_by_stereotype |->
                       {st \in {GetStr(decls[i], "stereotype") : i \in Range(named)} : Truthy(st)},
                   specializes_map |-> {p[1] : p \in Range(TablePairs(decls))}],
         built |-> TRUE]

\* mutant: the lookup is d[key], which inserts the missing key into a defaultdict
Lookup_index(t, dict, key) == [t EXCEPT !.keys[dict] = @ \cup {key}]

\* the table after d.get(key, default) on one of its defaultdicts: no key is inserted
Lookup(t, dict, key) == t

\* the table after the lookups of a loop
RECURSIVE Lookups(_, _, _)
Lookups(t, dict, ks) ==
    IF ks = <<>> THEN t ELSE Lookups(Lookup(t, dict, Head(ks)), dict, Tail(ks))

\* table["specializes_map"].get(name, [])
TableSubs(t, name) == AppendMapGet(t.specializes_map, name)

(***************************************************************************)
(* 1. check_subkind_pattern                                                *)
(***************************************************************************)
\* mutant: the pattern asks for three specializers
SubkindEnough_three(actual_subkinds) == Len(actual_subkinds) >= 3

\* `if len(actual_subkinds) < 2: continue`
SubkindEnough(actual_subkinds) == Len(actual_subkinds) >= 2

\* mutant: the genset is not filtered by the stereotype of its specifics
SubkindOnly_any(specifics, all_subkind_names) == TRUE

\* `if not specifics.issubset(all_subkind_names): continue`
SubkindOnly(specifics, all_subkind_names) == specifics \subseteq all_subkind_names

\* mutant: a missing `disjoint` is never reported
SubkindLacksDisjoint_never(modifiers) == FALSE

\* `if "disjoint" not in modifiers`
SubkindLacksDisjoint(modifiers) == "disjoint" \notin modifiers

\* `if actual_subkind_names.issubset(specifics)`
SubkindCovers(actual_subkind_names, specifics) == actual_subkind_names \subseteq specifics

SubkindViolation(genset_name, kind_name, lineno) ==
    [type |-> "Semantic Error (Mandatory Constraint - Coerção)",
     pattern |-> "Subkind Pattern",
     message |-> Msg("subkind_genset_must_be_disjoint", <<genset_name, kind_name>>),
     lineno |-> lineno]

SubkindFound(kind_name, actual_names, genset_name, modifiers, lineno) ==
    [pattern |-> "Subkind Pattern", kind |-> kind_name, subkinds |-> Sorted(actual_names),
     genset_name |-> genset_name, is_complete |-> "complete" \in modifiers,
     lineno |-> lineno]

\* mutant: no break, the loop goes on with the gensets after the found one
SubkindBreak_continue(rest) == rest

\* `break` after found.append: the rest of the loop is not run
SubkindBreak(rest) == NoResult

\* the loop over the gensets of one Kind, from the p-th on; it stops at the first found
RECURSIVE SubkindGensets(_, _, _, _, _, _)
SubkindGensets(decls, kind_name, kind_line, gs, actual_names, declared) ==
    IF gs = <<>> THEN NoResult
    ELSE LET g == decls[Head(gs)]
             genset_name == GetNameOrNA(g)
             modifiers == Range(GetList(g, "modifiers"))
             specifics == Range(GetList(g, "specifics"))
             lineno == GetLinenoOr(g, kind_line)
             rest == SubkindGensets(decls, kind_name, kind_line, Tail(gs), actual_names, declared)
         IN  IF GetListRaises(g, "modifiers") \/ GetListRaises(g, "specifics") THEN Raise
             ELSE IF ~SubkindOnly(specifics, declared) THEN rest
             ELSE IF SubkindLacksDisjoint(modifiers)
                  THEN Concat(<<[NoResult EXCEPT
                                   !.errors = <<SubkindViolation(genset_name, kind_name, lineno)>>],
                                rest>>)
             ELSE IF SubkindCovers(actual_names, specifics)
                  THEN Concat(<<[NoResult EXCEPT
                                   !.found = <<SubkindFound(kind_name, actual_names, genset_name,
                                                            modifiers, lineno)>>],
                                SubkindBreak(rest)>>)
             ELSE rest

check_subkind_pattern(a) ==
    LET decls == Declarations(a)
        classes == ClassIdxs(decls)
        kinds == CollectByStereotype(decls, "kind")
        subkinds == CollectByStereotype(decls, "subkind")
        pairs == SpecializesPairs(decls, classes)
        all_subkind_names == DictKeys(subkinds)
        PerKind(e) ==
            LET actual == SelectSeq(AppendMapGet(pairs, e.k), LAMBDA n : n \in all_subkind_names)
            IN  IF ~SubkindEnough(actual) THEN NoResult
                ELSE SubkindGensets(decls, e.k, GetLineno(decls[e.v]),
                                    GensetsByGeneral(decls, e.k), Range(actual),
                                    all_subkind_names)
    IN  IF DeclarationsRaise(a) THEN Raise
        ELSE IF \E j \in 1..Len(classes) : GetListRaises(decls[classes[j]], "specializes")
             THEN Raise
        ELSE Concat([j \in 1..Len(kinds) |-> PerKind(kinds[j])])

(***************************************************************************)
(* 2. check_role_pattern                                                   *)
(***************************************************************************)
\* `if len(role_names) < 2: continue`
RoleEnough(role_names) == Len(role_names) >= 2

\* `if not gs_specs.issubset(all_role_names): continue`
RoleOnly(gs_specs, all_role_names) == gs_specs \subseteq all_role_names

\* mutant: a `disjoint` genset of Roles is never reported
RoleHasDisjoint_never(gs_mod) == FALSE

\* `if "disjoint" in gs_mod`
RoleHasDisjoint(gs_mod) == "disjoint" \in gs_mod

\* `if len(gs_specs) >= 2` and `if actual_roles and actual_roles.issubset(gs_specs)`
RoleCovers(actual_roles, gs_specs) ==
    /\ Cardinality(gs_specs) >= 2
    /\ actual_roles # {}
    /\ actual_roles \subseteq gs_specs

RoleViolation(gs_name, kind_name, lineno) ==
    [type |-> "Semantic Error (Coercion Conflict)",
     pattern |-> "Role Pattern",
     message |-> Msg("role_genset_must_not_be_disjoint", <<gs_name, kind_name>>),
     lineno |-> lineno]

RoleFound(kind_name, actual_roles, gs_name, modifiers, lineno) ==
    [pattern |-> "Role Pattern", kind |-> kind_name, roles |-> Sorted(actual_roles),
     genset_name |-> gs_name, is_complete |-> "complete" \in modifiers, lineno |-> lineno]

\* the loop over the gensets related to one Kind; the violation does not stop the
\* evaluation of the genset, the found record ends the loop
\* `break` after found.append
RoleBreak(rest) == NoResult

RECURSIVE RoleGensets(_, _, _, _, _, _)
RoleGensets(decls, kind_name, kind_line, gs, actual_roles, all_role_names) ==
    IF gs = <<>> THEN NoResult
    ELSE LET g == decls[Head(gs)]
             gs_name == GetNameOrNA(g)
             gs_mod == Range(ensure_list(g, "modifiers"))
             gs_specs == Range(ensure_list(g, "specifics"))
             lineno == safe_lineno(g, kind_line)
             rest == RoleGensets(decls, kind_name, kind_line, Tail(gs), actual_roles,
                                 all_role_names)
             violation == IF RoleHasDisjoint(gs_mod)
                          THEN <<RoleViolation(gs_name, kind_name, lineno)>> ELSE <<>>
         IN  IF gs_specs = {} THEN rest
             ELSE IF ~RoleOnly(gs_specs, all_role_names) THEN rest
             ELSE IF RoleCovers(actual_roles, gs_specs)
                  THEN Concat(<<[NoResult EXCEPT
                                   !.errors = violation,
                                   !.found = <<RoleFound(kind_name, actual_roles, gs_name,
                                                         gs_mod, lineno)>>],
                                RoleBreak(rest)>>)
             ELSE Concat(<<[NoResult EXCEPT !.errors = violation], rest>>)

\* [g for g in gensets if g.get("general") == name]
RelatedGensets(decls, t, name) ==
    SelectSeq(t.gensets, LAMBDA i : GetStr(decls[i], "general") = name)

check_role_pattern(a, t) ==
    LET decls == Declarations(a)
        kinds == t.classes_by_stereotype["kind"]
        roles == t.classes_by_stereotype["role"]
        all_role_names == DictKeys(roles)
        PerKind(e) ==
            LET role_names == SelectSeq(TableSubs(t, e.k), LAMBDA n : n \in all_role_names)
            IN  IF ~RoleEnough(role_names) THEN NoResult
                ELSE RoleGensets(decls, e.k, safe_lineno(decls[e.v], 0),
                                 RelatedGensets(decls, t, e.k), Range(role_names),
                                 all_role_names)
    IN  Concat([j \in 1..Len(kinds) |-> PerKind(kinds[j])])

(***************************************************************************)
(* 3. check_phase_pattern                                                  *)
(***************************************************************************)
\* `if len(actual_phases) < 2: continue`
PhaseEnough(actual_phases) == Len(actual_phases) >= 2

\* `if not specifics.issubset(all_phase_names): continue`
PhaseOnly(specifics, all_phase_names) == specifics \subseteq all_phase_names

\* mutant: a genset of Phases lacking `disjoint` is never reported
PhaseLacksDisjoint_never(modifiers) == FALSE

\* `if "disjoint" not in modifiers`
PhaseLacksDisjoint(modifiers) == "disjoint" \notin modifiers

\* mutant: the genset is judged on its own, whichever Phases specialize the Kind
PhaseCovers_alone(actual_phase_names, specifics) == Cardinality(specifics) >= 2

\* `if len(specifics) >= 2 and actual_phase_names.issubset(specifics)`
PhaseCovers(actual_phase_names, specifics) ==
    Cardinality(specifics) >= 2 /\ actual_phase_names \subseteq specifics

PhaseViolation(genset_name, kind_name, lineno) ==
    [type |-> "Semantic Error (Mandatory Constraint - Coerção)",
     pattern |-> "Phase Pattern",
     message |-> Msg("phase_genset_must_be_disjoint", <<genset_name, kind_name>>),
     lineno |-> lineno]

PhaseFound(kind_name, actual_names, modifiers, lineno) ==
    [pattern |-> "Phase Pattern", kind |-> kind_name, phases |-> Sorted(actual_names),
     is_disjoint |-> TRUE, is_complete |-> "complete" \in modifiers, lineno |-> lineno]

RECURSIVE PhaseGensets(_, _, _, _, _, _)
PhaseGensets(decls, kind_name, kind_line, gs, actual_names, declared) ==
    IF gs = <<>> THEN NoResult
    ELSE LET g == decls[Head(gs)]
             genset_name == GetNameOrNA(g)
             modifiers == Range(GetList(g, "modifiers"))
             specifics == Range(GetList(g, "specifics"))
             lineno == GetLinenoOr(g, kind_line)
             rest == PhaseGensets(decls, kind_name, kind_line, Tail(gs), actual_names, declared)
         IN  IF GetListRaises(g, "modifiers") \/ GetListRaises(g, "specifics") THEN Raise
             ELSE IF ~PhaseOnly(specifics, declared) THEN rest
             ELSE IF PhaseLacksDisjoint(modifiers)
                  THEN Concat(<<[NoResult EXCEPT
                                   !.errors = <<PhaseViolation(genset_name, kind_name, lineno)>>],
                                rest>>)
             ELSE IF PhaseCovers(actual_names, specifics)
                  THEN [NoResult EXCEPT
                          !.found = <<PhaseFound(kind_name, actual_names, modifiers, lineno)>>]
             ELSE rest

check_phase_pattern(a) ==
    LET decls == Declarations(a)
        classes == ClassIdxs(decls)
        kinds == CollectByStereotype(decls, "kind")
        phases == CollectByStereotype(decls, "phase")
        pairs == SpecializesPairs(decls, classes)
        all_phase_names == DictKeys(phases)
        PerKind(e) ==
            LET actual == SelectSeq(AppendMapGet(pairs, e.k), LAMBDA n : n \in all_phase_names)
            IN  IF ~PhaseEnough(actual) THEN NoResult
                ELSE PhaseGensets(decls, e.k, GetLineno(decls[e.v]),
                                  GensetsByGeneral(decls, e.k), Range(actual),
                                  all_phase_names)
    IN  IF DeclarationsRaise(a) THEN Raise
        ELSE IF \E j \in 1..Len(classes) : GetListRaises(decls[classes[j]], "specializes")
             THEN Raise
        ELSE Concat([j \in 1..Len(kinds) |-> PerKind(kinds[j])])

(***************************************************************************)
(* 4. check_relator_pattern                                                *)
(***************************************************************************)
\* x.get("a") or x.get("b"): the first truthy value, else the last
Or2(x, y) == IF Truthy(x) THEN x ELSE y

IsMaterial(d) ==
    /\ d.type \in {"RelationDeclaration", "InlineRelation"}
    /\ (GetStr(d, "stereotype") = "material" \/ GetStr(d, "relation_type") = "material")

\* mediated_entities: the declared roles, kinds and subkinds
MediatedEntities(decls) ==
    {GetStr(decls[i], "name") : i \in
        {j \in 1..Len(decls) : /\ IsClass(decls[j])
                               /\ GetStr(decls[j], "stereotype") \in {"role", "kind", "subkind"}}}

\* `len(r.get("specializes", [])) == 1`
ExactlyOneSupertype(d) == Len(GetList(d, "specializes")) = 1

\* itertools.combinations(keys, 2)
Combinations2(keys) ==
    Flatten([i \in 1..Len(keys) |->
        [m \in 1..(Len(keys) - i) |-> <<keys[i], keys[i + m]>>]])

\* `relator_decl.get("body", {})` then `body.get(...)`: a body of None raises
BodyRaises(d) == "body" \in d.null

\* body.get("relations") or body.get("members") or []
Terminations(d) == IF "body" \in d.absent THEN <<>> ELSE d.body

\* mutant: a member without a stereotype tag counts as a mediation too
Mediated_untagged(d, entities) ==
    {Or2(None, t.target_class) : t \in
        {m \in Range(Terminations(d)) : m.stereotype \in {"mediation", None}}} \cap entities

\* the targets of the members tagged mediation that are mediated entities
Mediated(d, entities) ==
    {Or2(None, t.target_class) : t \in
        {m \in Range(Terminations(d)) : m.stereotype = "mediation"}} \cap entities

\* the search for a relator mediating both roles: 0 when there is none, the index of
\* the first one otherwise, -1 when a relator reached before it has a body of None
RECURSIVE FindRelator(_, _, _, _)
FindRelator(decls, rels, pair, entities) ==
    IF rels = <<>> THEN 0
    ELSE IF BodyRaises(decls[Head(rels)]) THEN -1
    ELSE IF pair \subseteq Mediated(decls[Head(rels)], entities) THEN Head(rels)
    ELSE FindRelator(decls, Tail(rels), pair, entities)

MaterialEnd1(d) == GetStr(d, "source_class")

MaterialEnd2(d) == GetStr(d, "target_class")

\* mutant: one endpoint in the pair is enough
MaterialLinks_touching(d, pair) == {MaterialEnd1(d), MaterialEnd2(d)} \cap pair # {}

\* `if {t1, t2} == {r1_name, r2_name}`
MaterialLinks(d, pair) == {MaterialEnd1(d), MaterialEnd2(d)} = pair

\* the first material relation whose endpoints are the pair, 0 when there is none
FindMaterial(decls, mats, pair) ==
    LET hits == SelectSeq(mats, LAMBDA i : MaterialLinks(decls[i], pair))
    IN  IF hits = <<>> THEN 0 ELSE Head(hits)

\* found_material.get("relation_name", found_material.get("name", "N/A"))
MaterialName(d) ==
    IF "relation_name" \notin d.absent THEN GetStr(d, "relation_name") ELSE GetNameOrNA(d)

\* a.get("lineno") or b.get("lineno") or c.get("lineno")
FirstLine(x, y, z) == IF x # 0 THEN x ELSE IF y # 0 THEN y ELSE z

RelatorFound(decls, rel, mat, r1_name, r2_name, r1) ==
    [pattern |-> "Relator Pattern",
     relator_name |-> GetStr(decls[rel], "name"),
     roles |-> <<r1_name, r2_name>>,
     material_relation |-> MaterialName(decls[mat]),
     lineno |-> FirstLine(GetLineno(decls[rel]), GetLineno(decls[mat]), GetLineno(decls[r1]))]

\* the halves named as missing
MissingHalves(rel, mat) ==
    (IF rel = 0 THEN <<"Relator com mediação">> ELSE <<>>)
        \o (IF mat = 0 THEN <<"relação @material externa">> ELSE <<>>)

RelatorIncomplete(decls, rel, mat, r1_name, r2_name, r1) ==
    [type |-> "Incomplete Pattern (Deduction Failure)",
     pattern |-> "Relator Pattern",
     message |-> Msg("relator_partial_detection", <<r1_name, r2_name, MissingHalves(rel, mat)>>),
     lineno |-> GetLineno(decls[r1])]

\* mutant: every pair of valid roles is examined
DistinctSupertypes_any(kind1, kind2) == TRUE

\* `if not kind1 or not kind2 or kind1 == kind2: continue`
DistinctSupertypes(kind1, kind2) == Truthy(kind1) /\ Truthy(kind2) /\ kind1 # kind2

check_relator_pattern(a) ==
    LET decls == Declarations(a)
        classes == ClassIdxs(decls)
        roles == CollectByStereotype(decls, "role")
        relators == CollectByStereotype(decls, "relator")
        entities == MediatedEntities(decls)
        mats == SelectSeq(Indices(decls), LAMBDA i : IsMaterial(decls[i]))
        valid_roles == SelectSeq(roles, LAMBDA e : ExactlyOneSupertype(decls[e.v]))
        rels == [j \in 1..Len(relators) |-> relators[j].v]
        PerPair(p) ==
            LET r1 == DictGet(valid_roles, p[1])
                r2 == DictGet(valid_roles, p[2])
                kind1 == decls[r1].specializes[1]
                kind2 == decls[r2].specializes[1]
                rel == FindRelator(decls, rels, {p[1], p[2]}, entities)
                mat == FindMaterial(decls, mats, {p[1], p[2]})
            IN  IF ~DistinctSupertypes(kind1, kind2) THEN NoResult
                ELSE IF rel = -1 THEN Raise
                ELSE IF rel # 0 /\ mat # 0
                     THEN [NoResult EXCEPT
                             !.found = <<RelatorFound(decls, rel, mat, p[1], p[2], r1)>>]
                ELSE IF rel # 0 \/ mat # 0
                     THEN [NoResult EXCEPT
                             !.errors = <<RelatorIncomplete(decls, rel, mat, p[1], p[2], r1)>>]
                ELSE NoResult
        pairs == Combinations2(KeySeq(valid_roles))
    IN  IF DeclarationsRaise(a) THEN Raise
        ELSE IF \E j \in 1..Len(classes) : GetListRaises(decls[classes[j]], "specializes")
             THEN Raise
        ELSE Concat([j \in 1..Len(pairs) |-> PerPair(pairs[j])])

(***************************************************************************)
(* 5. check_mode_pattern                                                   *)
(***************************************************************************)
\* str.lower() on the stereotype tags of the models
Lower(x) ==
    CASE x = "Characterization" -> "characterization"
      [] x = "externalDependence" -> "externaldependence"
      [] x = "ExternalDependence" -> "externaldependence"
      [] OTHER -> x

\* r.get("name") and r.get("name").lower().startswith("character")
NameStartsCharacter(n) == n \in {"characterizes", "Characterizes"}

\* r.get("name") and "external" in r.get("name").lower()
NameHasExternal(n) == n \in {"externalLink", "dependsOnExternal", "externalId"}

\* body_relations: [] unless the body is a dict
BodyRelations(d) == IF IsNone(d, "body") THEN <<>> ELSE d.body

\* the scan of the members for the characterization relation: a tagged member always
\* replaces the current one, a member matched by name only fills an empty slot
RECURSIVE ScanChar(_, _)
ScanChar(ms, cur) ==
    IF ms = <<>> THEN cur
    ELSE LET r == Head(ms)
             stereo == Lower(r.stereotype)
         IN  IF r.stereotype # None /\ stereo = "characterization" THEN ScanChar(Tail(ms), <<r>>)
             ELSE IF r.stereotype # None /\ stereo = "externaldependence" THEN ScanChar(Tail(ms), cur)
             ELSE IF NameStartsCharacter(r.name) /\ cur = <<>> THEN ScanChar(Tail(ms), <<r>>)
             ELSE ScanChar(Tail(ms), cur)

RECURSIVE ScanExt(_, _)
ScanExt(ms, cur) ==
    IF ms = <<>> THEN cur
    ELSE LET r == Head(ms)
             stereo == Lower(r.stereotype)
         IN  IF r.stereotype # None /\ stereo = "characterization" THEN ScanExt(Tail(ms), cur)
             ELSE IF r.stereotype # None /\ stereo = "externaldependence" THEN ScanExt(Tail(ms), <<r>>)
             ELSE IF NameStartsCharacter(r.name) THEN ScanExt(Tail(ms), cur)
             ELSE IF NameHasExternal(r.name) /\ cur = <<>> THEN ScanExt(Tail(ms), <<r>>)
             ELSE ScanExt(Tail(ms), cur)

\* r.get("target") or r.get("target_class") or r.get("targetClass")
MemberTarget(r) == IF Truthy(r.target_class) THEN r.target_class ELSE None

\* _safe_lineno_of(decl): safe_lineno(decl, 1)
ModeLine(d) == safe_lineno(d, 1)

ModeInvalidTarget(mode_name, target_char, target_ext, lineno) ==
    [type |-> "Invalid Target (Incomplete Pattern)",
     pattern |-> "Mode Pattern",
     message |-> Msg("mode_targets_not_kinds", <<mode_name, target_char, target_ext>>),
     lineno |-> lineno]

ModeCoercion(mode_name, target_char, lineno) ==
    [type |-> "Semantic Warning (Coercion)",
     pattern |-> "Mode Pattern",
     message |-> Msg("mode_same_kind", <<mode_name, target_char>>),
     lineno |-> lineno]

ModeFound(mode_name, target_char, target_ext, lineno) ==
    [pattern |-> "Mode Pattern", mode_name |-> mode_name, characterizes |-> target_char,
     depends_on |-> target_ext, lineno |-> lineno]

ModeMissing(char_rel, extdep_rel) ==
    (IF char_rel = <<>> THEN <<"@characterization">> ELSE <<>>)
        \o (IF extdep_rel = <<>> THEN <<"@externalDependence">> ELSE <<>>)

ModeIncomplete(mode_name, char_rel, extdep_rel, lineno) ==
    [type |-> "Incomplete Pattern (Deduction Failure)",
     pattern |-> "Mode Pattern",
     message |-> Msg("mode_missing", <<mode_name, ModeMissing(char_rel, extdep_rel)>>),
     lineno |-> lineno]

\* modes_map: the table's modes, or a scan of the AST when the table has none
ModesMap(decls, t) ==
    IF t.classes_by_stereotype["mode"] # <<>> THEN t.classes_by_stereotype["mode"]
    ELSE CollectByStereotype(decls, "mode")

check_mode_pattern(a, t) ==
    LET decls == Declarations(a)
        kinds_map == DictKeys(t.classes_by_stereotype["kind"])
        modes_map == ModesMap(decls, t)
        PerMode(e) ==
            LET d == decls[e.v]
                body_relations == BodyRelations(d)
                char_rel == ScanChar(body_relations, <<>>)
                extdep_rel == ScanExt(body_relations, <<>>)
                target_char == MemberTarget(char_rel[1])
                target_ext == MemberTarget(extdep_rel[1])
            IN  IF char_rel = <<>> \/ extdep_rel = <<>>
                THEN [NoResult EXCEPT
                        !.errors = <<ModeIncomplete(e.k, char_rel, extdep_rel, ModeLine(d))>>]
                ELSE IF target_char \notin kinds_map \/ target_ext \notin kinds_map
                THEN [NoResult EXCEPT
                        !.errors = <<ModeInvalidTarget(e.k, target_char, target_ext, ModeLine(d))>>]
                ELSE [NoResult EXCEPT
                        !.errors = IF target_char = target_ext
                                   THEN <<ModeCoercion(e.k, target_char, ModeLine(d))>>
                                   ELSE <<>>,
                        !.found = <<ModeFound(e.k, target_char, target_ext, ModeLine(d))>>]
    IN  Concat([j \in 1..Len(modes_map) |-> PerMode(modes_map[j])])

(***************************************************************************)
(* 6. check_rolemixin_pattern                                              *)
(***************************************************************************)
\* _safe_lineno(primary, fallback): the first positive int line, else 1
RoleMixinLine(primary, fallback) ==
    IF GetLineno(primary) > 0 THEN GetLineno(primary)
    ELSE IF GetLineno(fallback) > 0 THEN GetLineno(fallback)
    ELSE 1

RoleMixinNoGenset(rm_name, specializing_roles, lineno) ==
    [type |-> "Incomplete Pattern (Mandatory Genset Missing)",
     pattern |-> "RoleMixin Pattern",
     message |-> Msg("rolemixin_without_genset", <<rm_name, specializing_roles>>),
     lineno |-> lineno]

RoleMixinNotDisjoint(gs_name, rm_name, lineno) ==
    [type |-> "Semantic Error (Mandatory Constraint)",
     pattern |-> "RoleMixin Pattern",
     message |-> Msg("rolemixin_genset_must_be_disjoint", <<gs_name, rm_name>>),
     lineno |-> lineno]

RoleMixinTooFew(gs_name, lineno) ==
    [type |-> "Incomplete Pattern (Too Few Specifics)",
     pattern |-> "RoleMixin Pattern",
     message |-> Msg("rolemixin_too_few_specifics", <<gs_name>>),
     lineno |-> lineno]

RoleMixinNonRoles(gs_name, non_roles, lineno) ==
    [type |-> "Semantic Error (Type Violation)",
     pattern |-> "RoleMixin Pattern",
     message |-> Msg("rolemixin_specifics_not_roles", <<gs_name, non_roles>>),
     lineno |-> lineno]

RoleMixinMissing(gs_name, missing, lineno) ==
    [type |-> "Incomplete Pattern (Missing Specifics)",
     pattern |-> "RoleMixin Pattern",
     message |-> Msg("rolemixin_missing_roles", <<gs_name, Sorted(missing)>>),
     lineno |-> lineno]

RoleMixinFound(rm_name, gs_specs, gs_name, lineno) ==
    [pattern |-> "RoleMixin Pattern", rolemixin |-> rm_name, roles_grouped |-> Sorted(gs_specs),
     genset_name |-> gs_name, is_disjoint |-> TRUE, lineno |-> lineno]

\* `if "disjoint" not in gs_mod`
RoleMixinLacksDisjoint(gs_mod) == "disjoint" \notin gs_mod

\* `if len(gs_specs) < 2`
RoleMixinTooFewSpecifics(gs_specs) == Cardinality(gs_specs) < 2

\* non_roles = [s for s in gs_specs if s not in all_role_names], in the set's iteration order
NonRoles(gs_specs, all_role_names, seed) == SetIteration(gs_specs \ all_role_names, seed)

\* mutant: every genset of the model counts as a genset of the RoleMixin
RoleMixinRelated_any(decls, t, rm_name) == t.gensets

\* related_gensets = [g for g in gensets if g.get("general") == rm_name]
RoleMixinRelated(decls, t, rm_name) ==
    SelectSeq(t.gensets, LAMBDA i : GetStr(decls[i], "general") = rm_name)

\* mutant: the conditions are an if/elif chain, only the first failing one is reported
RoleMixinChecks_first(e1, e2, e3) == IF e1 # <<>> THEN e1 ELSE IF e2 # <<>> THEN e2 ELSE e3

\* the three `if` statements (1), (2), (3) run one after the other, each appending its
\* diagnostic and clearing `valid`
RoleMixinChecks(e1, e2, e3) == e1 \o e2 \o e3

\* mutant: the coverage of the specializing Roles is not checked
RoleMixinUncovered_none(specializing_roles, gs_specs) == {}

\* missing = set(specializing_roles) - gs_specs
RoleMixinUncovered(specializing_roles, gs_specs) == Range(specializing_roles) \ gs_specs

\* one genset of a RoleMixin: each failing condition adds its diagnostic
RoleMixinGenset(g, rm, rm_name, specializing_roles, all_role_names, seed) ==
    LET gs_name == GetNameOrNA(g)
        gs_mod == Range(ensure_list(g, "modifiers"))
        gs_specs == Range(ensure_list(g, "specifics"))
        gs_lineno == RoleMixinLine(g, rm)
        non_roles == NonRoles(gs_specs, all_role_names, seed)
        e1 == IF RoleMixinLacksDisjoint(gs_mod)
              THEN <<RoleMixinNotDisjoint(gs_name, rm_name, gs_lineno)>> ELSE <<>>
        e2 == IF RoleMixinTooFewSpecifics(gs_specs) THEN <<RoleMixinTooFew(gs_name, gs_lineno)>> ELSE <<>>
        e3 == IF non_roles # <<>>
              THEN <<RoleMixinNonRoles(gs_name, non_roles, gs_lineno)>> ELSE <<>>
        missing == RoleMixinUncovered(specializing_roles, gs_specs)
        failed == RoleMixinChecks(e1, e2, e3)
    IN  IF failed # <<>> THEN [NoResult EXCEPT !.errors = failed]
        ELSE IF missing # {}
             THEN [NoResult EXCEPT !.errors = <<RoleMixinMissing(gs_name, missing, gs_lineno)>>]
        ELSE [NoResult EXCEPT !.found = <<RoleMixinFound(rm_name, gs_specs, gs_name, gs_lineno)>>]

check_rolemixin_pattern(a, t, seed) ==
    LET decls == Declarations(a)
        rolemixins == t.classes_by_stereotype["roleMixin"]
        roles == t.classes_by_stereotype["role"]
        all_role_names == DictKeys(roles)
        PerRoleMixin(e) ==
            LET rm == decls[e.v]
                specializing_roles == SelectSeq(TableSubs(t, e.k), LAMBDA r : r \in all_role_names)
                related_gensets == RoleMixinRelated(decls, t, e.k)
            IN  IF specializing_roles = <<>> THEN NoResult
                ELSE IF related_gensets = <<>>
                     THEN [NoResult EXCEPT
                             !.errors = <<RoleMixinNoGenset(e.k, specializing_roles,
                                                            RoleMixinLine(rm, rm))>>]
                ELSE Concat([j \in 1..Len(related_gensets) |->
                        RoleMixinGenset(decls[related_gensets[j]], rm, e.k,
                                        specializing_roles, all_role_names, seed)])
    IN  Concat([j \in 1..Len(rolemixins) |-> PerRoleMixin(rolemixins[j])])

(***************************************************************************)
(* Models explored.  A declaration is written as the parser and the        *)
(* module's own sample model write it: a class has type, stereotype, name, *)
(* specializes and, when it has members, a body; a class without members   *)
(* has a body of None (parser) or no body key (sample model).              *)
(***************************************************************************)
Blank ==
    [type |-> None, name |-> None, stereotype |-> None, specializes |-> <<>>, body |-> <<>>,
     modifiers |-> <<>>, general |-> None, specifics |-> <<>>, lineno |-> 0,
     source_class |-> None, target_class |-> None, relation_name |-> None,
     relation_type |-> None, absent |-> {}, null |-> {}]

ClassAbsent ==
    {"modifiers", "general", "specifics", "source_class", "target_class", "relation_name",
     "relation_type"}

\* p_declaracao_classe without a body: "body": None
Class(st, n, sups) ==
    [Blank EXCEPT !.type = "ClassDeclaration", !.stereotype = st, !.name = n,
                  !.specializes = sups, !.absent = ClassAbsent, !.null = {"body"}]

\* p_declaracao_classe with a body: "body": {"type": "ClassBody", "members": [...]}
ClassWithBody(st, n, sups, members) ==
    [Class(st, n, sups) EXCEPT !.body = members, !.null = {}]

\* p_declaracao_relacao_interna / p_relacao_interna_relator
Member(st, n, target) == [stereotype |-> st, name |-> n, target_class |-> target]

\* p_declaracao_genset
Genset(n, mods, general, specs) ==
    [Blank EXCEPT !.type = "GeneralizationSet", !.name = n, !.modifiers = mods,
                  !.general = general, !.specifics = specs,
                  !.absent = {"stereotype", "specializes", "body", "source_class",
                              "target_class", "relation_name", "relation_type"}]

\* p_declaracao_relacao_inline_com_estereotipo
InlineRelation(st, src, n, tgt) ==
    [Blank EXCEPT !.type = "InlineRelation", !.stereotype = st, !.source_class = src,
                  !.relation_name = n, !.target_class = tgt,
                  !.absent = {"name", "specializes", "body", "modifiers", "general",
                              "specifics", "relation_type"}]

\* the line of a declaration is its position in the model
Numbered(decls) == [i \in 1..Len(decls) |-> [decls[i] EXCEPT !.lineno = i]]

\* gensets and relators are named after their position among their kind
Renamed(ds, names) == [i \in 1..Len(ds) |-> [ds[i] EXCEPT !.name = names[i]]]

GensetNames == <<"G1", "G2", "G3">>

RelatorNames == <<"R1", "R2", "R3">>

Model(decls) == [declarations |-> Numbered(decls), absent |-> {}, null |-> {}]

(***************************************************************************)
(* run_semantic_checks, one step per call it makes.                        *)
(***************************************************************************)
\* lexer = lex.lex(): line 1, no text
NewLexer == [lineno |-> 1, lexdata |-> <<>>, lexpos |-> 1]

\* no entry point of the lexer has been called
NoScan == [entry |-> "", lines |-> <<>>, runs |-> 0]

\* nothing is printed before format_unified_output runs
NoOutput == [found |-> <<>>, coercion |-> <<>>, incomplete |-> <<>>]

\* the six checkers, in the order run_semantic_checks calls them
Checkers == <<"check_subkind_pattern", "check_role_pattern", "check_phase_pattern",
              "check_relator_pattern", "check_mode_pattern", "check_rolemixin_pattern">>

\* no checker has been started as a task
NoTasks == [begun |-> {}, ended |-> {}, results |-> [i \in 1..Len(Checkers) |-> NoResult]]

FirstRun == [run |-> 1, found |-> <<>>, errors |-> <<>>, raised |-> ""]

InitOf(models) ==
    /\ ast \in models
    /\ hashSeed \in HashSeeds
    /\ table = EmptyTable
    /\ pc = "build"
    /\ all_found = <<>>
    /\ all_errors = <<>>
    /\ raised = ""
    /\ prev = FirstRun
    /\ output = NoOutput
    /\ tasks = NoTasks
    /\ lexer = NewLexer
    /\ scan = NoScan

\* the exception leaves run_semantic_checks: its lists are lost
Raised(fn) ==
    /\ pc' = "raised"
    /\ raised' = fn
    /\ all_found' = <<>>
    /\ all_errors' = <<>>

\* found, errors = checker(ast, table); all_found.extend(found); all_errors.extend(errors)
Extend(fn, r, next) ==
    IF r.raised THEN Raised(fn)
    ELSE /\ pc' = next
         /\ all_found' = all_found \o r.found
         /\ all_errors' = all_errors \o r.errors
         /\ raised' = raised

BuildSymbolTable ==
    /\ pc = "build"
    /\ IF DeclarationsRaise(ast)
       THEN Raised("build_symbol_table") /\ table' = table
       ELSE /\ table' = build_symbol_table(ast)
            /\ pc' = "subkind"
            /\ UNCHANGED <<all_found, all_errors, raised>>
    /\ UNCHANGED <<ast, hashSeed, prev, output, tasks, lexer, scan>>

\* What the calls of a checker leave in the shared table.  check_subkind_pattern,
\* check_phase_pattern and check_relator_pattern receive the table and never read it.

\* check_role_pattern: .get("kind", {}), .get("role", {}), and
\* specializes_map.get(kind_name, []) for every Kind
RoleTable(t) ==
    Lookups(Lookups(t, "classes_by_stereotype", <<"kind", "role">>),
            "specializes_map", KeySeq(t.classes_by_stereotype["kind"]))

\* modes_map is the dict held by the table when the table has the key "mode";
\* otherwise it is the {} given to .get as default
ModesMapShared(t) == "mode" \in t.keys.classes_by_stereotype

\* check_mode_pattern: .get("kind", {}), .get("mode", {}); when modes_map is empty the
\* fallback scan writes the Modes of the AST into modes_map
ModeTable(a, t) ==
    LET t1 == Lookups(t, "classes_by_stereotype", <<"kind", "mode">>)
    IN  IF t1.classes_by_stereotype["mode"] = <<>> /\ ModesMapShared(t1)
        THEN [t1 EXCEPT !.classes_by_stereotype["mode"] = ModesMap(Declarations(a), t1)]
        ELSE t1

\* check_rolemixin_pattern: .get("roleMixin", {}), .get("role", {}), and
\* specializes_map.get(rm_name, []) for every RoleMixin
RoleMixinTable(t) ==
    Lookups(Lookups(t, "classes_by_stereotype", <<"roleMixin", "role">>),
            "specializes_map", KeySeq(t.classes_by_stereotype["roleMixin"]))

CheckSubkind ==
    /\ pc = "subkind"
    /\ Extend("check_subkind_pattern", check_subkind_pattern(ast), "role")
    /\ UNCHANGED <<ast, table, hashSeed, prev, output, tasks, lexer, scan>>

CheckRole ==
    /\ pc = "role"
    /\ Extend("check_role_pattern", check_role_pattern(ast, table), "phase")
    /\ table' = RoleTable(table)
    /\ UNCHANGED <<ast, hashSeed, prev, output, tasks, lexer, scan>>

CheckPhase ==
    /\ pc = "phase"
    /\ Extend("check_phase_pattern", check_phase_pattern(ast), "relator")
    /\ UNCHANGED <<ast, table, hashSeed, prev, output, tasks, lexer, scan>>

CheckRelator ==
    /\ pc = "relator"
    /\ Extend("check_relator_pattern", check_relator_pattern(ast), "mode")
    /\ UNCHANGED <<ast, table, hashSeed, prev, output, tasks, lexer, scan>>

CheckMode ==
    /\ pc = "mode"
    /\ Extend("check_mode_pattern", check_mode_pattern(ast, table), "rolemixin")
    /\ table' = ModeTable(ast, table)
    /\ UNCHANGED <<ast, hashSeed, prev, output, tasks, lexer, scan>>

CheckRoleMixin ==
    /\ pc = "rolemixin"
    /\ Extend("check_rolemixin_pattern", check_rolemixin_pattern(ast, table, hashSeed), "done")
    /\ table' = RoleMixinTable(table)
    /\ UNCHANGED <<ast, hashSeed, prev, output, tasks, lexer, scan>>

\* The analysis is run again on the same model, by a new interpreter process: the
\* symbol table and the result lists are rebuilt, the hash seed is drawn again.
Rerun ==
    /\ pc \in {"done", "raised"}
    /\ prev.run = 1
    /\ prev' = [run |-> 2, found |-> all_found, errors |-> all_errors, raised |-> raised]
    /\ hashSeed' \in HashSeeds
    /\ table' = EmptyTable
    /\ pc' = "build"
    /\ all_found' = <<>>
    /\ all_errors' = <<>>
    /\ raised' = ""
    /\ UNCHANGED <<ast, output, tasks, lexer, scan>>

Next ==
    \/ BuildSymbolTable
    \/ CheckSubkind
    \/ CheckRole
    \/ CheckPhase
    \/ CheckRelator
    \/ CheckMode
    \/ CheckRoleMixin

NextRerun == Next \/ Rerun

(***************************************************************************)
(* format_unified_output                                                   *)
(***************************************************************************)
\* p.get(field): None when the record has no such field
FieldOrNone(p, field) == IF field \in DOMAIN p THEN p[field] ELSE None

extract_general_name(p) ==
    IF p.pattern \in {"Subkind Pattern", "Role Pattern", "Phase Pattern"}
    THEN FieldOrNone(p, "kind")
    ELSE IF p.pattern = "RoleMixin Pattern" THEN FieldOrNone(p, "rolemixin")
    ELSE IF p.pattern = "Relator Pattern" THEN FieldOrNone(p, "relator_name")
    ELSE IF p.pattern = "Mode Pattern" THEN FieldOrNone(p, "mode_name")
    ELSE "<unknown>"

\* p.get("subkinds") or p.get("roles") or p.get("roles_grouped") or p.get("phases");
\* a missing list and an empty one are both falsy (<<>>)
FoundSpecifics(p) ==
    LET get(f) == IF f \in DOMAIN p THEN p[f] ELSE <<>>
    IN  IF get("subkinds") # <<>> THEN get("subkinds")
        ELSE IF get("roles") # <<>> THEN get("roles")
        ELSE IF get("roles_grouped") # <<>> THEN get("roles_grouped")
        ELSE get("phases")

\* the details of one found line, by the branch that writes them
FoundDetails(p) ==
    LET general_name == extract_general_name(p)
        specifics == FoundSpecifics(p)
    IN  IF p.pattern = "RoleMixin Pattern"
        THEN [shape |-> "RoleMixin", general |-> general_name, specifics |-> specifics]
        ELSE IF p.pattern = "Relator Pattern"
        THEN [shape |-> "Roles mediadas", role1 |-> FieldOrNone(p, "role1"),
              role2 |-> FieldOrNone(p, "role2"), relator |-> FieldOrNone(p, "relator_name")]
        ELSE IF p.pattern = "Mode Pattern"
        THEN [shape |-> "Caracteriza", characterizes |-> FieldOrNone(p, "characterizes"),
              depends_on |-> FieldOrNone(p, "depends_on")]
        ELSE IF Truthy(general_name) /\ specifics # <<>>
        THEN [shape |-> "Kind", general |-> general_name, specifics |-> specifics]
        ELSE [shape |-> "json", record |-> p]

FoundLine(p) == [lineno |-> p.lineno, pattern |-> p.pattern, details |-> FoundDetails(p)]

\* the words of the "type" strings the checkers write
TypeWords(type) ==
    CASE type = "Semantic Error (Mandatory Constraint - Coerção)"
            -> <<"Semantic", "Error", "(", "Mandatory", "Constraint", "-", "Coerção", ")">>
      [] type = "Semantic Error (Coercion Conflict)"
            -> <<"Semantic", "Error", "(", "Coercion", "Conflict", ")">>
      [] type = "Incomplete Pattern (Deduction Failure)"
            -> <<"Incomplete", "Pattern", "(", "Deduction", "Failure", ")">>
      [] type = "Invalid Target (Incomplete Pattern)"
            -> <<"Invalid", "Target", "(", "Incomplete", "Pattern", ")">>
      [] type = "Semantic Warning (Coercion)"
            -> <<"Semantic", "Warning", "(", "Coercion", ")">>
      [] type = "Incomplete Pattern (Mandatory Genset Missing)"
            -> <<"Incomplete", "Pattern", "(", "Mandatory", "Genset", "Missing", ")">>
      [] type = "Semantic Error (Mandatory Constraint)"
            -> <<"Semantic", "Error", "(", "Mandatory", "Constraint", ")">>
      [] type = "Incomplete Pattern (Too Few Specifics)"
            -> <<"Incomplete", "Pattern", "(", "Too", "Few", "Specifics", ")">>
      [] type = "Semantic Error (Type Violation)"
            -> <<"Semantic", "Error", "(", "Type", "Violation", ")">>
      [] type = "Incomplete Pattern (Missing Specifics)"
            -> <<"Incomplete", "Pattern", "(", "Missing", "Specifics", ")">>
      [] OTHER -> <<>>

\* `needle in e.get("type", "")`: the words of the needle occur in a row
InType(needle, type) ==
    LET ws == TypeWords(type)
    IN  \E i \in 1..Len(ws) :
            /\ i + Len(needle) - 1 <= Len(ws)
            /\ \A j \in 1..Len(needle) : ws[i + j - 1] = needle[j]

\* the test of section (2)
InCoercion(e) == InType(<<"Coerção">>, e.type) \/ InType(<<"Coercion">>, e.type)

\* the test of section (3)
InIncomplete(e) ==
    InType(<<"Incomplete", "Pattern">>, e.type) \/ InType(<<"Invalid", "Target">>, e.type)

\* the prefix a message text starts with
MessagePrefix(key) ==
    CASE key = "role_genset_must_not_be_disjoint" -> "ERRO POR COERÇÃO: "
      [] key = "mode_same_kind" -> "AVISO DE COERÇÃO: "
      [] key \in {"relator_partial_detection", "mode_targets_not_kinds", "mode_missing",
                  "rolemixin_missing_roles"} -> "DEDUÇÃO DE PADRÃO INCOMPLETO: "
      [] OTHER -> ""

\* e["message"].replace(prefix, "") for each of the prefixes
StripPrefix(message, prefixes) ==
    [key |-> message.key, args |-> message.args,
     prefix |-> IF MessagePrefix(message.key) \in prefixes THEN "" ELSE MessagePrefix(message.key)]

CoercionLine(e) ==
    [lineno |-> e.lineno, pattern |-> e.pattern,
     msg |-> StripPrefix(e.message, {"ERRO POR COERÇÃO: ", "AVISO DE COERÇÃO: "})]

IncompleteLine(e) ==
    [lineno |-> e.lineno, pattern |-> e.pattern,
     msg |-> StripPrefix(e.message, {"DEDUÇÃO DE PADRÃO INCOMPLETO: "})]

\* the three sections of the report, each a list of lines
format_unified_output(found_patterns, validation_errors) ==
    LET coercion == SelectSeq(validation_errors, InCoercion)
        incomplete == SelectSeq(validation_errors, InIncomplete)
    IN  [found      |-> [i \in 1..Len(found_patterns) |-> FoundLine(found_patterns[i])],
         coercion   |-> [i \in 1..Len(coercion) |-> CoercionLine(coercion[i])],
         incomplete |-> [i \in 1..Len(incomplete) |-> IncompleteLine(incomplete[i])]]

\* found_patterns, validation_errors = run_semantic_checks(...);
\* format_unified_output(found_patterns, validation_errors)
FormatUnifiedOutput ==
    /\ pc = "done"
    /\ output' = format_unified_output(all_found, all_errors)
    /\ pc' = "reported"
    /\ UNCHANGED <<ast, table, all_found, all_errors, raised, hashSeed, prev, tasks, lexer, scan>>

NextReport == Next \/ FormatUnifiedOutput

(***************************************************************************)
(* The six checkers as tasks over the one table, in any order.             *)
(***************************************************************************)
\* checker(ast, table)
Run(fn, a, t, seed) ==
    CASE fn = "check_subkind_pattern" -> check_subkind_pattern(a)
      [] fn = "check_role_pattern" -> check_role_pattern(a, t)
      [] fn = "check_phase_pattern" -> check_phase_pattern(a)
      [] fn = "check_relator_pattern" -> check_relator_pattern(a)
      [] fn = "check_mode_pattern" -> check_mode_pattern(a, t)
      [] fn = "check_rolemixin_pattern" -> check_rolemixin_pattern(a, t, seed)

\* what the call leaves in the table
TableAfter(fn, a, t) ==
    CASE fn = "check_role_pattern" -> RoleTable(t)
      [] fn = "check_mode_pattern" -> ModeTable(a, t)
      [] fn = "check_rolemixin_pattern" -> RoleMixinTable(t)
      [] OTHER -> t

\* table = build_symbol_table(ast), then the six calls are handed out as tasks
StartTasks ==
    /\ pc = "build"
    /\ IF DeclarationsRaise(ast)
       THEN Raised("build_symbol_table") /\ table' = table
       ELSE /\ table' = build_symbol_table(ast)
            /\ pc' = "tasks"
            /\ UNCHANGED <<all_found, all_errors, raised>>
    /\ UNCHANGED <<ast, hashSeed, prev, output, tasks, lexer, scan>>

\* the place of a checker in `checkers`
Position(fn) == CHOOSE i \in 1..Len(Checkers) : Checkers[i] = fn

\* a task is started, whichever the others are doing: its accesses to the table
BeginTask(fn) ==
    /\ pc = "tasks"
    /\ fn \notin tasks.begun
    /\ table' = TableAfter(fn, ast, table)
    /\ tasks' = [tasks EXCEPT !.begun = @ \cup {fn}]
    /\ UNCHANGED <<ast, pc, all_found, all_errors, raised, hashSeed, prev, output, lexer, scan>>

\* a task returns its (found, errors), computed over the table as the tasks begun so
\* far have left it
EndTask(fn) ==
    /\ pc = "tasks"
    /\ fn \in tasks.begun
    /\ fn \notin tasks.ended
    /\ tasks' = [tasks EXCEPT !.ended = @ \cup {fn},
                              !.results[Position(fn)] = Run(fn, ast, table, hashSeed)]
    /\ UNCHANGED <<ast, table, pc, all_found, all_errors, raised, hashSeed, prev, output, lexer, scan>>

\* mutant: all_found = found; all_errors = errors, each result replaces the one before
Merge_overwrite(tk) == tk.results[Len(Checkers)]

\* all_found.extend(found); all_errors.extend(errors), in the order of `checkers`
Merge(tk) == Concat(tk.results)

MergeTasks ==
    /\ pc = "tasks"
    /\ tasks.ended = Range(Checkers)
    /\ Extend(CHOOSE fn \in Range(Checkers) :
                  Merge(tasks).raised => tasks.results[Position(fn)].raised,
              Merge(tasks), "done")
    /\ UNCHANGED <<ast, table, hashSeed, prev, output, tasks, lexer, scan>>

NextTasks ==
    \/ StartTasks
    \/ \E fn \in Range(Checkers) : BeginTask(fn)
    \/ \E fn \in Range(Checkers) : EndTask(fn)
    \/ MergeTasks

\* run_semantic_checks as a function: the six calls one after the other, from the
\* i-th on, over the table the calls before have left
RECURSIVE RunFrom(_, _, _, _)
RunFrom(i, a, t, seed) ==
    IF i > Len(Checkers) THEN NoResult
    ELSE Concat(<<Run(Checkers[i], a, t, seed),
                  RunFrom(i + 1, a, TableAfter(Checkers[i], a, t), seed)>>)

run_semantic_checks(a, seed) == RunFrom(1, a, build_symbol_table(a), seed)

(***************************************************************************)
(* The shared lexer (src/lexer/lexer.py: lexer = lex.lex()) and the entry  *)
(* points that feed it.  A text is a list of characters: a word character  *)
(* or a newline.  lexer.input(s) stores the text and rewinds the position; *)
(* it leaves lexer.lineno as it is.  lexer.token() skips newlines, adding  *)
(* them to lexer.lineno (t_newline), and returns the next token stamped    *)
(* with lexer.lineno, or None at the end of the text.                      *)
(***************************************************************************)
Texts == SeqsUpTo({"w", "\n"}, MaxChars)

\* lexer.input(s)
LexerInput(lx, s) == [lx EXCEPT !.lexdata = s, !.lexpos = 1]

\* lexer.lineno = 1
LexerReset(lx) == [lx EXCEPT !.lineno = 1]

\* t_newline: r"\n+", t.lexer.lineno += len(t.value); the position after the newlines
RECURSIVE SkipNewlines(_)
SkipNewlines(lx) ==
    IF lx.lexpos <= Len(lx.lexdata) /\ lx.lexdata[lx.lexpos] = "\n"
    THEN SkipNewlines([lx EXCEPT !.lexpos = @ + 1, !.lineno = @ + 1])
    ELSE lx

\* an entry point starts: it resets the lexer or not, then hands it the text
StartScan(entry, lx, code) ==
    /\ pc = "idle"
    /\ scan.runs < MaxRuns
    /\ lexer' = LexerInput(lx, code)
    /\ scan' = [entry |-> entry, lines |-> <<>>, runs |-> scan.runs + 1]
    /\ pc' = "scanning"
    /\ UNCHANGED <<ast, table, all_found, all_errors, raised, hashSeed, prev, output, tasks>>

\* src/tests/test_lexer.py run_lexer_test: "# Reseta o lexer", lexer.input(code_example)
TestsRunLexerTest == \E code \in Texts : StartScan("tests.run_lexer_test", lexer, code)

\* src/lexer/lexer.py run_lexer_test: lexer.lineno = 1; lexer.input(code_example)
RunLexerTest == \E code \in Texts : StartScan("lexer.run_lexer_test", LexerReset(lexer), code)

\* src/main.py run_analysis_lexica: lexer.lineno = 1; lexer.input(codigo_para_analise)
RunAnalysisLexica == \E code \in Texts : StartScan("run_analysis_lexica", LexerReset(lexer), code)

\* src/parser/parser.py parse_tonto_code: lexer.lineno = 1; parser.parse(code_string,
\* lexer=lexer), which calls lexer.input(code_string) and then lexer.token()
ParseTontoCode == \E code \in Texts : StartScan("parse_tonto_code", LexerReset(lexer), code)

\* tok = lexer.token(); `if not tok: break`; the line of the token is reported
Token ==
    /\ pc = "scanning"
    /\ LET lx == SkipNewlines(lexer)
       IN  IF lx.lexpos > Len(lx.lexdata)
           THEN /\ lexer' = lx
                /\ pc' = "idle"
                /\ UNCHANGED scan
           ELSE /\ lexer' = [lx EXCEPT !.lexpos = @ + 1]
                /\ scan' = [scan EXCEPT !.lines = Append(@, lx.lineno)]
                /\ pc' = "scanning"
    /\ UNCHANGED <<ast, table, all_found, all_errors, raised, hashSeed, prev, output, tasks>>

NextLexer ==
    \/ TestsRunLexerTest
    \/ RunLexerTest
    \/ RunAnalysisLexica
    \/ ParseTontoCode
    \/ Token

\* the process starts with the lexer as lex.lex() built it
InitLexer ==
    /\ ast = Model(<<>>)
    /\ hashSeed = "ascending"
    /\ table = EmptyTable
    /\ pc = "idle"
    /\ all_found = <<>>
    /\ all_errors = <<>>
    /\ raised = ""
    /\ prev = FirstRun
    /\ output = NoOutput
    /\ tasks = NoTasks
    /\ lexer = NewLexer
    /\ scan = NoScan

SpecLexer == InitLexer /\ [][NextLexer]_vars

(***************************************************************************)
(* Subkind models: a Kind, Subkinds and a Phase specializing it, gensets.  *)
(***************************************************************************)
SubkindClasses ==
    {Class("subkind", "A", <<"K">>), Class("subkind", "B", <<"K">>), Class("phase", "C", <<"K">>)}

SubkindGensetDecls ==
    {Genset("G", m, "K", s) : m \in {<<>>, <<"disjoint", "complete">>},
                              s \in {<<"A">>, <<"A", "B">>, <<"A", "C">>}}

SubkindModels ==
    {Model(<<Class("kind", "K", <<>>)>> \o cs \o Renamed(gs, GensetNames)) :
        cs \in SeqsUpTo(SubkindClasses, MaxClasses),
        gs \in SeqsUpTo(SubkindGensetDecls, MaxGensets)}

InitSubkind == InitOf(SubkindModels)

SpecSubkind == InitSubkind /\ [][Next]_vars

(***************************************************************************)
(* Role models: a Kind, Roles specializing it, gensets over the Roles.     *)
(***************************************************************************)
RoleClasses ==
    {Class("role", "A", <<"K">>), Class("role", "B", <<"K">>), Class("role", "C", <<"K">>)}

RoleGensetDecls ==
    {Genset("G", m, "K", s) : m \in {<<>>, <<"disjoint">>},
                              s \in {<<"A">>, <<"A", "B">>, <<"A", "B", "C">>}}

RoleModels ==
    {Model(<<Class("kind", "K", <<>>)>> \o cs \o Renamed(gs, GensetNames)) :
        cs \in SeqsUpTo(RoleClasses, MaxClasses),
        gs \in SeqsUpTo(RoleGensetDecls, MaxGensets)}

InitRole == InitOf(RoleModels)

SpecRole == InitRole /\ [][Next]_vars

(***************************************************************************)
(* Phase models: a Kind, Phases specializing it, gensets over the Phases.   *)
(***************************************************************************)
PhaseClasses ==
    {Class("phase", "A", <<"K">>), Class("phase", "B", <<"K">>), Class("phase", "C", <<"K">>),
     Class("phase", "C", <<>>)}

PhaseGensetDecls ==
    {Genset("G", m, "K", s) : m \in {<<>>, <<"disjoint">>},
                              s \in {<<"A", "C">>, <<"A", "B">>, <<"A", "B", "C">>}}

PhaseModels ==
    {Model(<<Class("kind", "K", <<>>)>> \o cs \o Renamed(gs, GensetNames)) :
        cs \in SeqsUpTo(PhaseClasses, MaxClasses),
        gs \in SeqsUpTo(PhaseGensetDecls, MaxGensets)}

InitPhase == InitOf(PhaseModels)

SpecPhase == InitPhase /\ [][Next]_vars

(***************************************************************************)
(* Relator models: two Kinds, Roles specializing them, Relator classes     *)
(* with or without a body of mediations, relations between the Roles.      *)
(***************************************************************************)
RelatorRoles ==
    {Class("role", "A", <<"K">>), Class("role", "B", <<"K2">>), Class("role", "C", <<"K">>)}

Mediation(target) == Member("mediation", None, target)

RelatorClasses ==
    {Class("relator", "R", <<>>),
     ClassWithBody("relator", "R", <<>>, <<Mediation("A"), Mediation("B")>>),
     ClassWithBody("relator", "R", <<>>, <<Mediation("B"), Mediation("C")>>)}

RelatorRelations ==
    {InlineRelation("material", "A", "works", "B"),
     InlineRelation("material", "C", "works", "B"),
     InlineRelation("componentOf", "A", "has", "B")}

RelatorModels ==
    {Model(<<Class("kind", "K", <<>>), Class("kind", "K2", <<>>)>> \o cs
               \o Renamed(rs, RelatorNames) \o ms) :
        cs \in SeqsUpTo(RelatorRoles, MaxClasses),
        rs \in SeqsUpTo(RelatorClasses, MaxRelators),
        ms \in SeqsUpTo(RelatorRelations, MaxRelations)}

InitRelator == InitOf(RelatorModels)

SpecRelator == InitRelator /\ [][Next]_vars

(***************************************************************************)
(* RoleMixin models: a RoleMixin, Roles and a Kind specializing it,        *)
(* gensets of the RoleMixin and of another class.                          *)
(***************************************************************************)
RoleMixinClasses ==
    {Class("role", "A", <<"M">>), Class("role", "B", <<"M">>), Class("kind", "C", <<"M">>)}

RoleMixinGensetDecls ==
    {Genset("G", m, "M", s) : m \in {<<>>, <<"disjoint">>},
                              s \in {<<"A">>, <<"A", "B">>, <<"C", "K">>}}
        \cup {Genset("G", <<"disjoint">>, "K", <<"A", "B">>)}

RoleMixinModels ==
    {Model(<<Class("roleMixin", "M", <<>>)>> \o cs \o Renamed(gs, GensetNames)) :
        cs \in SeqsUpTo(RoleMixinClasses, MaxClasses),
        gs \in SeqsUpTo(RoleMixinGensetDecls, MaxGensets)}

InitRoleMixin == InitOf(RoleMixinModels)

SpecRoleMixin == InitRoleMixin /\ [][Next]_vars

\* the analysis of a model, run a second time
SpecRerun == InitRoleMixin /\ [][NextRerun]_vars

\* the analysis of a model, followed by its report
SpecReport == InitRoleMixin /\ [][NextReport]_vars

(***************************************************************************)
(* Models with optional fields missing or None.                            *)
(***************************************************************************)
\* the declaration without the key
Without(d, k) == [d EXCEPT ![k] = Blank[k], !.absent = @ \cup {k}, !.null = @ \ {k}]

\* the declaration with the key set to None
Nulled(d, k) == [d EXCEPT ![k] = Blank[k], !.null = @ \cup {k}, !.absent = @ \ {k}]

NullClasses ==
    {Without(Without(Without(Class("kind", "K", <<>>), "specializes"), "body"), "lineno"),
     Class("subkind", "A", <<"K">>),
     Nulled(Class("subkind", "B", <<"K">>), "lineno"),
     Nulled(Class("subkind", "B", <<"K">>), "specializes"),
     Class("mode", "C", <<>>)}

NullGensets ==
    {Genset("G", <<"disjoint">>, "K", <<"A", "B">>),
     Without(Without(Genset("G", <<>>, "K", <<"A", "B">>), "modifiers"), "lineno"),
     Nulled(Genset("G", <<>>, "K", <<"A", "B">>), "modifiers"),
     Nulled(Genset("G", <<"disjoint">>, "K", <<>>), "specifics")}

\* {} and {"declarations": None}
NoDeclarations == [declarations |-> <<>>, absent |-> {"declarations"}, null |-> {}]

NullDeclarations == [declarations |-> <<>>, absent |-> {}, null |-> {"declarations"}]

NullModels ==
    {NoDeclarations, NullDeclarations}
        \cup {Model(cs \o Renamed(gs, GensetNames)) :
                cs \in SeqsUpTo(NullClasses, MaxClasses),
                gs \in SeqsUpTo(NullGensets, MaxGensets)}

InitNull == InitOf(NullModels)

SpecNull == InitNull /\ [][Next]_vars

(***************************************************************************)
(* Models that declare a class name more than once, Modes with and without *)
(* a name.                                                                 *)
(***************************************************************************)
TableClasses ==
    {Class("kind", "A", <<>>), Class("role", "A", <<"B">>),
     Class("kind", "B", <<>>), Class("subkind", "B", <<"A">>),
     Class("mode", "C", <<>>), Nulled(Class("mode", "C", <<>>), "name")}

TableModels == {Model(cs) : cs \in SeqsUpTo(TableClasses, MaxClasses)}

SpecTable == InitOf(TableModels) /\ [][Next]_vars

(***************************************************************************)
(* Models with something for every table-reading checker: a Kind with two  *)
(* Subkinds, a RoleMixin with two Roles, gensets and Modes.                *)
(***************************************************************************)
TaskGensetDecls ==
    {Genset("G", <<"disjoint">>, "K", <<"A", "B">>), Genset("G", <<>>, "M", <<"C">>)}

TaskModes == {Class("mode", "E", <<>>), Nulled(Class("mode", "E", <<>>), "name")}

TaskModels ==
    {Model(<<Class("kind", "K", <<>>), Class("subkind", "A", <<"K">>),
             Class("subkind", "B", <<"K">>), Class("roleMixin", "M", <<>>),
             Class("role", "C", <<"M">>), Class("role", "D", <<"M">>)>>
           \o ms \o Renamed(gs, GensetNames)) :
        ms \in SeqsUpTo(TaskModes, MaxRelations),
        gs \in SeqsUpTo(TaskGensetDecls, MaxGensets)}

SpecTasks == InitOf(TaskModels) /\ [][NextTasks]_vars

(***************************************************************************)
(* Models of a Kind with two Subkinds and two Roles, more classes, and     *)
(* gensets over the Subkinds and over the Roles.                           *)
(***************************************************************************)
KindClasses == {Class("kind", "K", <<>>), Class("role", "E", <<"K">>)}

KindGensetDecls ==
    {Genset("G", m, "K", s) : m \in {<<>>, <<"disjoint">>},
                              s \in {<<"A", "B">>, <<"C", "D">>, <<"C">>}}

KindModels ==
    {Model(<<Class("kind", "K", <<>>), Class("subkind", "A", <<"K">>),
             Class("subkind", "B", <<"K">>), Class("role", "C", <<"K">>),
             Class("role", "D", <<"K">>)>>
           \o cs \o Renamed(gs, GensetNames)) :
        cs \in SeqsUpTo(KindClasses, MaxClasses),
        gs \in SeqsUpTo(KindGensetDecls, MaxGensets)}

SpecKind == InitOf(KindModels) /\ [][Next]_vars

(***************************************************************************)
(* Pair models: Roles with no, one and two supertypes, one Relator that    *)
(* mediates every class, material relations between Roles and between the  *)
(* Kinds.                                                                  *)
(***************************************************************************)
PairRoles ==
    {Class("role", "A", <<"K">>), Class("role", "B", <<"K2">>), Class("role", "C", <<"K">>),
     Class("role", "D", <<>>), Class("role", "E", <<"K", "K2">>)}

PairRelations ==
    {InlineRelation("material", "A", "works", "B"), InlineRelation("material", "A", "works", "C"),
     InlineRelation("material", "B", "works", "D"), InlineRelation("material", "B", "works", "E"),
     InlineRelation("material", "K", "works", "K2")}

PairModels ==
    {Model(<<Class("kind", "K", <<>>), Class("kind", "K2", <<>>)>> \o cs
               \o <<ClassWithBody("relator", "R1", <<>>,
                        <<Mediation("A"), Mediation("B"), Mediation("C"), Mediation("D"),
                          Mediation("E"), Mediation("K"), Mediation("K2")>>)>>
               \o ms) :
        cs \in SeqsUpTo(PairRoles, MaxClasses),
        ms \in SeqsUpTo(PairRelations, MaxRelations)}

SpecPair == InitOf(PairModels) /\ [][Next]_vars

(***************************************************************************)
(* Mediation models: three Roles of two Kinds, Relators whose members are  *)
(* tagged mediation or carry no tag, material relations with the endpoints *)
(* in either order, equal, or one of them outside the pair.                *)
(***************************************************************************)
\* p_declaracao_relacao_interna without a stereotype
Pole(target) == Member(None, "has", target)

MediationRelators ==
    {ClassWithBody("relator", "R", <<>>, <<Mediation("A"), Mediation("B")>>),
     ClassWithBody("relator", "R", <<>>, <<Pole("A"), Pole("B")>>),
     ClassWithBody("relator", "R", <<>>, <<Mediation("A"), Pole("B")>>)}

MediationRelations ==
    {InlineRelation("material", "A", "works", "B"), InlineRelation("material", "B", "works", "A"),
     InlineRelation("material", "A", "works", "A"), InlineRelation("material", "A", "works", "C")}

MediationModels ==
    {Model(<<Class("kind", "K", <<>>), Class("kind", "K2", <<>>), Class("role", "A", <<"K">>),
             Class("role", "B", <<"K2">>), Class("role", "C", <<"K2">>)>>
               \o Renamed(rs, RelatorNames) \o ms) :
        rs \in SeqsUpTo(MediationRelators, MaxRelators),
        ms \in SeqsUpTo(MediationRelations, MaxRelations)}

SpecMediation == InitOf(MediationModels) /\ [][Next]_vars

(***************************************************************************)
(* Mode models: Kinds K and K2, a Role A, a Mode M with up to MaxMembers   *)
(* members and possibly a second Mode B.  The members are written as the   *)
(* parser writes them: an InternalRelation has a stereotype and no name, a *)
(* RelationPole has a name and a stereotype or None, an Attribute has a    *)
(* name and neither stereotype nor target.  C is not declared.             *)
(***************************************************************************)
\* p_classe_relation_internal: "@characterization -- K"
Tagged(st, target) == Member(st, None, target)

\* p_atributo_datatype: "externalId : string"
Attribute(n) == Member(None, n, None)

ModeMembers ==
    {Tagged("characterization", "K"), Tagged("characterization", "A"),
     Tagged("externalDependence", "K"), Tagged("externalDependence", "K2"),
     Tagged("externalDependence", "C"),
     Member(None, "characterizes", "K2"), Member(None, "externalLink", "A"),
     Member("mediation", "characterizes", "K"), Member("mediation", "externalLink", "K"),
     Attribute("externalId")}

\* "mode M" has a body of None, "mode M { ... }" a body with its members
ModeClass(n, ms) ==
    IF ms = <<>> THEN Class("mode", n, <<>>) ELSE ClassWithBody("mode", n, <<>>, ms)

SecondModes ==
    {<<>>, <<Class("mode", "B", <<>>)>>,
     <<ModeClass("B", <<Tagged("characterization", "K"), Tagged("externalDependence", "K")>>)>>}

ModeModels ==
    {Model(<<Class("kind", "K", <<>>), Class("kind", "K2", <<>>), Class("role", "A", <<"K">>),
             ModeClass("M", ms)>> \o bs) :
        ms \in SeqsUpTo(ModeMembers, MaxMembers), bs \in SecondModes}

SpecMode == InitOf(ModeModels) /\ [][Next]_vars

(***************************************************************************)
(* Coverage models: a RoleMixin M, Roles A and B specializing it, possibly *)
(* a class C (a Role specializing M, a Role on its own, or a Kind), and    *)
(* gensets of M with and without `disjoint` over one, two or three names.  *)
(***************************************************************************)
CoverThird ==
    {<<>>, <<Class("role", "C", <<"M">>)>>, <<Class("role", "C", <<>>)>>,
     <<Class("kind", "C", <<"M">>)>>}

CoverGensetDecls ==
    {Genset("G", m, "M", s) : m \in {<<>>, <<"disjoint">>},
                              s \in {<<"A", "B">>, <<"A", "B", "C">>, <<"A">>, <<"C">>}}

CoverModels ==
    {Model(<<Class("roleMixin", "M", <<>>), Class("role", "A", <<"M">>),
             Class("role", "B", <<"M">>)>> \o c \o Renamed(gs, GensetNames)) :
        c \in CoverThird, gs \in SeqsUpTo(CoverGensetDecls, MaxGensets)}

SpecCover == InitOf(CoverModels) /\ [][Next]_vars

(***************************************************************************)
(* Report models: Kinds K and K2, a RoleMixin M with Roles A and B, then   *)
(* gensets of M and a Mode C in any order, so that the checkers find       *)
(* patterns on lines in and out of the order the checkers are called in.   *)
(***************************************************************************)
ReportItems ==
    {ModeClass("C", <<Tagged("characterization", "K"), Tagged("externalDependence", "K2")>>),
     Class("mode", "C", <<>>),
     Genset("G1", <<"disjoint">>, "M", <<"A", "B">>),
     Genset("G2", <<>>, "M", <<"A", "B">>)}

ReportModels ==
    {Model(<<Class("kind", "K", <<>>), Class("kind", "K2", <<>>), Class("roleMixin", "M", <<>>),
             Class("role", "A", <<"M">>), Class("role", "B", <<"M">>)>> \o items) :
        items \in SeqsUpTo(ReportItems, MaxGensets)}

SpecFound == InitOf(ReportModels) /\ [][NextReport]_vars

(***************************************************************************)
(* Mixed models: a Kind K with two Subkinds, two Roles and two Phases,     *)
(* possibly Roles declared under the names of the Subkinds, and gensets of *)
(* K over Subkinds, Roles, Phases, a mix of them, or nothing.              *)
(***************************************************************************)
MixHomonyms == {<<>>, <<Class("role", "A", <<"K">>), Class("role", "B", <<"K">>)>>}

MixGensetDecls ==
    {Genset("G", m, "K", s) : m \in {<<>>, <<"disjoint">>},
                              s \in {<<"A", "B">>, <<"C", "D">>, <<"E", "F">>, <<"A", "C">>, <<>>}}

MixModels ==
    {Model(<<Class("kind", "K", <<>>), Class("subkind", "A", <<"K">>),
             Class("subkind", "B", <<"K">>), Class("role", "C", <<"K">>),
             Class("role", "D", <<"K">>), Class("phase", "E", <<"K">>),
             Class("phase", "F", <<"K">>)>> \o hs \o Renamed(gs, GensetNames)) :
        hs \in MixHomonyms, gs \in SeqsUpTo(MixGensetDecls, MaxGensets)}

SpecMix == InitOf(MixModels) /\ [][Next]_vars

\* the analysis of a model with Relators, followed by its report
SpecMediationReport == InitOf(MediationModels) /\ [][NextReport]_vars

(***************************************************************************)
(* Vocabulary of the properties: what the model declares, read off the     *)
(* declarations themselves.                                                *)
(***************************************************************************)
Decls == Declarations(ast)

ClassDecls == {d \in Range(Decls) : IsClass(d)}

GensetDecls == {d \in Range(Decls) : IsGenset(d)}

\* the names declared with a stereotype
Declared(st) == {d.name : d \in {c \in ClassDecls : c.stereotype = st}}

\* the classes of a stereotype that list `super` in their specializes
Specializers(super, st) ==
    {d.name : d \in {c \in ClassDecls : c.stereotype = st /\ super \in Range(c.specializes)}}

Mods(g) == Range(g.modifiers)

Specs(g) == Range(g.specifics)

FoundOf(pattern) == {f \in Range(all_found) : f.pattern = pattern}

ErrorsOf(pattern) == {e \in Range(all_errors) : e.pattern = pattern}

\* how many entries of a list satisfy a test
Count(s, Test(_)) == Len(SelectSeq(s, Test))

\* the checker has returned into run_semantic_checks
Returned(fn) ==
    CASE fn = "check_subkind_pattern" -> pc \in {"role", "phase", "relator", "mode", "rolemixin", "done"}
      [] fn = "check_role_pattern" -> pc \in {"phase", "relator", "mode", "rolemixin", "done"}
      [] fn = "check_phase_pattern" -> pc \in {"relator", "mode", "rolemixin", "done"}
      [] fn = "check_relator_pattern" -> pc \in {"mode", "rolemixin", "done"}
      [] fn = "check_mode_pattern" -> pc \in {"rolemixin", "done"}
      [] fn = "check_rolemixin_pattern" -> pc = "done"

\* the checker has been called: it returned or it raised
Called(fn) == Returned(fn) \/ (pc = "raised" /\ raised = fn)

(***************************************************************************)
(* C1  Subkind: a Kind with a disjoint, complete genset over its Subkinds. *)
(***************************************************************************)
\* a genset of Kind K, disjoint and complete, whose specifics are exactly the Subkinds
\* that specialize K
SubkindGensetOf(K, g) ==
    /\ g.general = K
    /\ {"disjoint", "complete"} \subseteq Mods(g)
    /\ Specs(g) = Specializers(K, "subkind")

SubkindFoundFor(K) == Count(all_found, LAMBDA f : f.pattern = "Subkind Pattern" /\ f.kind = K)

\* C1 as claimed: every Kind K that has a disjoint, complete genset whose specifics
\* are the set S of Subkinds specializing K gets exactly one found record, listing S,
\* and no violation diagnostic is emitted.
C1_AsClaimed ==
    Called("check_subkind_pattern") =>
        \A K \in Declared("kind") : \A g \in GensetDecls :
            SubkindGensetOf(K, g) =>
                /\ SubkindFoundFor(K) = 1
                /\ \A f \in FoundOf("Subkind Pattern") :
                       f.kind = K => f.subkinds = Sorted(Specializers(K, "subkind"))
                /\ ErrorsOf("Subkind Pattern") = {}

\* C1 amended: when at least two Subkinds specialize K, the Subkind checker emits
\* exactly one found record for K, listing exactly those Subkinds, and no violation
\* diagnostic for that genset.
C1_SubkindFound ==
    Called("check_subkind_pattern") =>
        \A K \in Declared("kind") : \A g \in GensetDecls :
            (SubkindGensetOf(K, g) /\ Cardinality(Specializers(K, "subkind")) >= 2) =>
                /\ SubkindFoundFor(K) = 1
                /\ \A f \in FoundOf("Subkind Pattern") :
                       f.kind = K => f.subkinds = Sorted(Specializers(K, "subkind"))
                /\ \A e \in ErrorsOf("Subkind Pattern") : e.lineno # g.lineno

C1_Witness ==
    /\ Returned("check_subkind_pattern")
    /\ \E K \in Declared("kind") : \E g \in GensetDecls :
          /\ SubkindGensetOf(K, g)
          /\ Cardinality(Specializers(K, "subkind")) >= 2
          /\ \E f \in FoundOf("Subkind Pattern") : f.kind = K /\ f.lineno = g.lineno
          /\ ErrorsOf("Subkind Pattern") # {}

(***************************************************************************)
(* C2  Subkind: a genset of Subkinds that is not disjoint.                 *)
(***************************************************************************)
\* a genset of Kind K naming only declared Subkinds and lacking `disjoint`, K having
\* at least two Subkind specializers
SubkindNotDisjoint(K, g) ==
    /\ Cardinality(Specializers(K, "subkind")) >= 2
    /\ g.general = K
    /\ Specs(g) \subseteq Declared("subkind")
    /\ "disjoint" \notin Mods(g)

\* an earlier genset of K already is a complete Subkind pattern of K
SubkindSettledBefore(K, g) ==
    \E h \in GensetDecls :
        /\ h.lineno < g.lineno
        /\ h.general = K
        /\ "disjoint" \in Mods(h)
        /\ Specs(h) \subseteq Declared("subkind")
        /\ Specializers(K, "subkind") \subseteq Specs(h)

SubkindViolationFor(g) == \E e \in ErrorsOf("Subkind Pattern") : e.lineno = g.lineno

SubkindFoundAt(g) == \E f \in FoundOf("Subkind Pattern") : f.lineno = g.lineno

\* the model has one genset only
OnlyGenset(g) == Count(Decls, IsGenset) = 1 /\ g \in GensetDecls

\* C2 as claimed: every such genset yields a violation diagnostic and never a found
\* record; when it is the only genset of the model, found is empty and there is
\* exactly one Subkind violation.
C2_AsClaimed ==
    Called("check_subkind_pattern") =>
        \A K \in Declared("kind") : \A g \in GensetDecls :
            SubkindNotDisjoint(K, g) =>
                /\ SubkindViolationFor(g)
                /\ ~SubkindFoundAt(g)
                /\ OnlyGenset(g) =>
                      /\ FoundOf("Subkind Pattern") = {}
                      /\ Count(all_errors, LAMBDA e : e.pattern = "Subkind Pattern") = 1

\* C2 amended: the same, for every such genset that is declared before any genset
\* that completes the Subkind pattern of the Kind (the checker stops at that one and
\* does not look at the gensets after it).
C2_SubkindNotDisjoint ==
    Called("check_subkind_pattern") =>
        \A K \in Declared("kind") : \A g \in GensetDecls :
            (SubkindNotDisjoint(K, g) /\ ~SubkindSettledBefore(K, g)) =>
                /\ SubkindViolationFor(g)
                /\ ~SubkindFoundAt(g)
                /\ OnlyGenset(g) =>
                      /\ FoundOf("Subkind Pattern") = {}
                      /\ Count(all_errors, LAMBDA e : e.pattern = "Subkind Pattern") = 1

C2_Witness ==
    /\ Returned("check_subkind_pattern")
    /\ \E K \in Declared("kind") : \E g \in GensetDecls :
          /\ SubkindNotDisjoint(K, g)
          /\ ~SubkindSettledBefore(K, g)
          /\ OnlyGenset(g)
          /\ SubkindViolationFor(g)

(***************************************************************************)
(* C3  Role: a disjoint genset over the Roles of a Kind.                   *)
(***************************************************************************)
\* a disjoint genset of Kind K whose specifics are Roles specializing K
RoleDisjointGenset(K, g) ==
    /\ g.general = K
    /\ "disjoint" \in Mods(g)
    /\ Specs(g) # {}
    /\ Specs(g) \subseteq Specializers(K, "role")

RoleViolationFor(g) == \E e \in ErrorsOf("Role Pattern") : e.lineno = g.lineno

RoleFoundAt(g) == \E f \in FoundOf("Role Pattern") : f.lineno = g.lineno

\* the genset completes the Role pattern of K: two or more specifics, covering every
\* Role that specializes K
RoleCompletes(K, g) ==
    /\ g.general = K
    /\ Specs(g) \subseteq Declared("role")
    /\ Cardinality(Specs(g)) >= 2
    /\ Specializers(K, "role") \subseteq Specs(g)

RoleSettledBefore(K, g) ==
    \E h \in GensetDecls : h.lineno < g.lineno /\ RoleCompletes(K, h)

PhaseNotDisjoint(K, g) ==
    /\ g.general = K
    /\ Specs(g) \subseteq Declared("phase")
    /\ "disjoint" \notin Mods(g)

PhaseViolationFor(g) == \E e \in ErrorsOf("Phase Pattern") : e.lineno = g.lineno

PhaseFoundAt(g) == \E f \in FoundOf("Phase Pattern") : f.lineno = g.lineno

\* an earlier genset of K already is a complete Phase pattern of K
PhaseSettledBefore(K, g) ==
    \E h \in GensetDecls :
        /\ h.lineno < g.lineno
        /\ h.general = K
        /\ "disjoint" \in Mods(h)
        /\ Specs(h) \subseteq Declared("phase")
        /\ Cardinality(Specs(h)) >= 2
        /\ Specializers(K, "phase") \subseteq Specs(h)

RoleDecl(A) == CHOOSE c \in ClassDecls : c.stereotype = "role" /\ c.name = A

\* A and B are declared Roles whose supertypes are distinct Kinds
RolesOfDistinctKinds(A, B) ==
    /\ A # B
    /\ Range(RoleDecl(A).specializes) \subseteq Declared("kind")
    /\ Range(RoleDecl(B).specializes) \subseteq Declared("kind")
    /\ \E ka \in Range(RoleDecl(A).specializes) : \E kb \in Range(RoleDecl(B).specializes) :
          ka # kb

\* the classes named by the mediations of a Relator class
MediatedBy(r) == {mb.target_class : mb \in {x \in Range(r.body) : x.stereotype = "mediation"}}

Mediators(A, B) ==
    {r \in ClassDecls : r.stereotype = "relator" /\ {A, B} \subseteq MediatedBy(r)}

Materials(A, B) ==
    {d \in Range(Decls) : /\ d.type = "InlineRelation"
                          /\ d.stereotype = "material"
                          /\ {d.source_class, d.target_class} = {A, B}}

RelatorFoundFor(A, B) ==
    SelectSeq(all_found, LAMBDA f : f.pattern = "Relator Pattern" /\ Range(f.roles) = {A, B})

RelatorErrorsFor(A, B) ==
    SelectSeq(all_errors, LAMBDA e : /\ e.pattern = "Relator Pattern"
                                     /\ {e.message.args[1], e.message.args[2]} = {A, B})

\* C5 as claimed: for every pair of Roles of distinct Kinds with a Relator mediating
\* both and a material relation between them, the Relator checker emits exactly one
\* found record naming the pair and a mediating Relator, and no diagnostic for the pair.
C5_AsClaimed ==
    Called("check_relator_pattern") =>
        \A A \in Declared("role") : \A B \in Declared("role") :
            (/\ RolesOfDistinctKinds(A, B)
             /\ Mediators(A, B) # {}
             /\ Materials(A, B) # {}) =>
                /\ Len(RelatorFoundFor(A, B)) = 1
                /\ \E r \in Mediators(A, B) : RelatorFoundFor(A, B)[1].relator_name = r.name
                /\ RelatorErrorsFor(A, B) = <<>>

\* C6 as claimed: for every pair of Roles of distinct Kinds, when exactly one of the
\* mediating Relator and the material relation is present the Relator checker emits
\* exactly one incomplete diagnostic for the pair, naming exactly the missing half, and
\* no found record; when neither is present it emits nothing for the pair.
C6_AsClaimed ==
    Called("check_relator_pattern") =>
        \A A \in Declared("role") : \A B \in Declared("role") :
            RolesOfDistinctKinds(A, B) =>
                /\ (Mediators(A, B) # {} /\ Materials(A, B) = {}) =>
                      /\ Len(RelatorErrorsFor(A, B)) = 1
                      /\ RelatorErrorsFor(A, B)[1].message.args[3] = <<"relação @material externa">>
                      /\ RelatorFoundFor(A, B) = <<>>
                /\ (Mediators(A, B) = {} /\ Materials(A, B) # {}) =>
                      /\ Len(RelatorErrorsFor(A, B)) = 1
                      /\ RelatorErrorsFor(A, B)[1].message.args[3] = <<"Relator com mediação">>
                      /\ RelatorFoundFor(A, B) = <<>>
                /\ (Mediators(A, B) = {} /\ Materials(A, B) = {}) =>
                      /\ RelatorErrorsFor(A, B) = <<>>
                      /\ RelatorFoundFor(A, B) = <<>>

(***************************************************************************)
(* C7  Two runs of the analysis on the same model.                         *)
(***************************************************************************)
SecondRunOver == prev.run = 2 /\ pc \in {"done", "raised"}

\* C7 as claimed: the second run of run_semantic_checks on an unchanged model returns
\* the found records and the diagnostics of the first run: the same records, in the
\* same order, with the same message text.
C7_AsClaimed ==
    SecondRunOver =>
        /\ all_found = prev.found
        /\ all_errors = prev.errors
        /\ raised = prev.raised

(***************************************************************************)
(* C8  RoleMixin: Roles specialize it and no genset names it as general.   *)
(***************************************************************************)
\* the RoleMixin diagnostics about rm: those naming it, and those naming one of
\* its gensets
RoleMixinErrorsFor(rm) ==
    SelectSeq(all_errors,
        LAMBDA e : /\ e.pattern = "RoleMixin Pattern"
                   /\ CASE e.message.key = "rolemixin_without_genset" -> e.message.args[1] = rm
                        [] e.message.key = "rolemixin_genset_must_be_disjoint" ->
                               e.message.args[2] = rm
                        [] OTHER -> \E g \in GensetDecls :
                                        g.general = rm /\ g.name = e.message.args[1])

RoleMixinFoundFor(rm) ==
    SelectSeq(all_found, LAMBDA f : f.pattern = "RoleMixin Pattern" /\ f.rolemixin = rm)

NoGensetOf(rm) == \A g \in GensetDecls : g.general # rm

\* C8: a RoleMixin that a declared Role specializes and that no genset names as its
\* general gets exactly one diagnostic from the RoleMixin checker, the Incomplete
\* "mandatory genset missing" one, and no found record; a RoleMixin that no Role
\* specializes gets no diagnostic and no found record.
C8_RoleMixinNoGenset ==
    Called("check_rolemixin_pattern") =>
        \A rm \in Declared("roleMixin") :
            /\ (Specializers(rm, "role") # {} /\ NoGensetOf(rm)) =>
                  /\ Len(RoleMixinErrorsFor(rm)) = 1
                  /\ RoleMixinErrorsFor(rm)[1].type =
                         "Incomplete Pattern (Mandatory Genset Missing)"
                  /\ RoleMixinErrorsFor(rm)[1].message.key = "rolemixin_without_genset"
                  /\ RoleMixinFoundFor(rm) = <<>>
            /\ Specializers(rm, "role") = {} =>
                  /\ RoleMixinErrorsFor(rm) = <<>>
                  /\ RoleMixinFoundFor(rm) = <<>>
                  /\ ErrorsOf("RoleMixin Pattern") = {}

C8_Witness ==
    /\ Returned("check_rolemixin_pattern")
    /\ \E rm \in Declared("roleMixin") :
          /\ Specializers(rm, "role") # {}
          /\ NoGensetOf(rm)
          /\ GensetDecls # {}
          /\ Len(RoleMixinErrorsFor(rm)) = 1

(***************************************************************************)
(* C9  Optional fields that are missing or None.                           *)
(***************************************************************************)
\* C9 as claimed: on a model that has a declarations list, whatever optional fields
\* (lineno, body, modifiers, specializes, specifics) its declarations lack or hold as
\* None, no checker raises and run_semantic_checks returns normally.
C9_AsClaimed == "declarations" \notin ast.null => pc # "raised"

(***************************************************************************)
(* C10  The empty model and the model without a declarations list.         *)
(***************************************************************************)
EmptyModel == "declarations" \notin ast.null /\ Declarations(ast) = <<>>

\* C10: on a model whose declarations list is empty or missing, neither the symbol
\* table builder nor a checker raises, and the found records and the diagnostics are
\* empty at every point of the run, hence when it returns.
C10_EmptyModel ==
    EmptyModel => /\ pc # "raised"
                  /\ raised = ""
                  /\ all_found = <<>>
                  /\ all_errors = <<>>

C10_Witness ==
    /\ pc = "done"
    /\ "declarations" \in ast.absent
    /\ all_found = <<>>
    /\ all_errors = <<>>

(***************************************************************************)
(* C11  The report: sections (2) and (3) and the diagnostics.              *)
(***************************************************************************)
\* the diagnostic is a line of the section
RenderedIn(section, e) ==
    \E i \in 1..Len(section) :
        /\ section[i].lineno = e.lineno
        /\ section[i].pattern = e.pattern
        /\ section[i].msg.key = e.message.key
        /\ section[i].msg.args = e.message.args

\* C11 as claimed: once the report is printed, every diagnostic of the checkers is a
\* line of exactly one of section (2), constraint violations, and section (3),
\* incomplete patterns: never of both, never of neither.
C11_AsClaimed ==
    pc = "reported" =>
        \A e \in Range(all_errors) :
            RenderedIn(output.coercion, e) # RenderedIn(output.incomplete, e)

(***************************************************************************)
(* C12  The symbol table of a model that declares a name more than once.   *)
(***************************************************************************)
\* the position of the last declaration of class n
LastDeclaration(n) ==
    CHOOSE i \in 1..Len(Decls) :
        /\ IsClass(Decls[i]) /\ Decls[i].name = n
        /\ \A j \in (i + 1)..Len(Decls) : ~(IsClass(Decls[j]) /\ Decls[j].name = n)

\* C12 as claimed: after build_symbol_table the last declaration of every class name
\* wins in every index: classes[n] is the last declaration of n, and n is a key of
\* classes_by_stereotype[s] if and only if s is the stereotype of that declaration.
C12_AsClaimed ==
    table.built =>
        \A n \in {d.name : d \in ClassDecls} :
            /\ n \in DictKeys(table.classes)
            /\ DictGet(table.classes, n) = LastDeclaration(n)
            /\ \A s \in Stereotypes :
                  n \in DictKeys(table.classes_by_stereotype[s])
                      <=> Decls[LastDeclaration(n)].stereotype = s

\* the part of C12 about classes alone
C12_ClassesLastWins ==
    table.built =>
        \A n \in {d.name : d \in ClassDecls} :
            /\ DictGet(table.classes, n) = LastDeclaration(n)
            /\ DictGet(table.classes_by_stereotype[Decls[LastDeclaration(n)].stereotype], n)
                  = LastDeclaration(n)

(***************************************************************************)
(* C13  The checkers leave the shared symbol table as it was built.        *)
(***************************************************************************)
\* C13: at every point of the run after build_symbol_table, whichever checkers have
\* run, the table holds exactly the keys and values build_symbol_table produced:
\* classes, classes_by_stereotype, gensets, specializes_map and the key sets of the
\* two defaultdicts.
C13_TableUnchanged == table.built => table = build_symbol_table(ast)

\* all six checkers have run on a model with a Kind that nothing specializes, without
\* Roles and RoleMixins, and with a Mode that only the fallback scan finds
C13_Witness ==
    /\ pc = "done"
    /\ \E K \in Declared("kind") : TableSubs(table, K) = <<>>
    /\ Declared("role") = {} /\ Declared("roleMixin") = {}
    /\ table.classes_by_stereotype["mode"] = <<>>
    /\ \E d \in ClassDecls : d.stereotype = "mode"
    /\ \E e \in Range(all_errors) : e.pattern = "Mode Pattern"

(***************************************************************************)
(* C14  The checkers in any order, as tasks over the shared table.         *)
(***************************************************************************)
\* what checker fn returns when it is the only one to run on the table just built
Alone(fn) == Run(fn, ast, build_symbol_table(ast), hashSeed)

\* C14: with the six checkers run as tasks over the one table, begun and ended in any
\* order, every task returns what its checker returns when run alone, and the merged
\* result is the concatenation of the six results in the order of the checkers, which
\* is the result of run_semantic_checks.
C14_OrderIndependent ==
    /\ \A fn \in tasks.ended : tasks.results[Position(fn)] = Alone(fn)
    /\ pc = "done" =>
          /\ all_found = Flatten([i \in 1..Len(Checkers) |-> Alone(Checkers[i]).found])
          /\ all_errors = Flatten([i \in 1..Len(Checkers) |-> Alone(Checkers[i]).errors])
          /\ all_found = run_semantic_checks(ast, hashSeed).found
          /\ all_errors = run_semantic_checks(ast, hashSeed).errors

\* the RoleMixin task has returned its diagnostics before the Subkind task is begun
\* and while the Mode task, begun before it, is still running its fallback scan
C14_Witness ==
    /\ pc = "tasks"
    /\ "check_rolemixin_pattern" \in tasks.ended
    /\ tasks.results[Position("check_rolemixin_pattern")].errors # <<>>
    /\ "check_subkind_pattern" \notin tasks.begun
    /\ "check_mode_pattern" \in tasks.begun \ tasks.ended
    /\ \E d \in ClassDecls : d.stereotype = "mode"

(***************************************************************************)
(* C15  Subkind: a Kind with fewer than two distinct Subkinds.             *)
(***************************************************************************)
\* the Subkind records that name Kind K: found records, and diagnostics of its gensets
SubkindRecordsOf(K) ==
    {f \in FoundOf("Subkind Pattern") : f.kind = K}
        \cup {e \in ErrorsOf("Subkind Pattern") : e.message.args[2] = K}

\* C15 as claimed: a Kind that fewer than two distinct Subkinds specialize, one Subkind
\* declared twice included, yields neither a found record nor a diagnostic of
\* check_subkind_pattern.
C15_AsClaimed ==
    Called("check_subkind_pattern") =>
        \A K \in Declared("kind") :
            Cardinality(Specializers(K, "subkind")) < 2 => SubkindRecordsOf(K) = {}

(***************************************************************************)
(* C16  Subkind and Role: one found record per Kind, at the first genset   *)
(* that qualifies.                                                         *)
(***************************************************************************)
\* genset g completes the Subkind pattern of K
SubkindQualifies(K, g) ==
    /\ g.general = K
    /\ Cardinality(Specializers(K, "subkind")) >= 2
    /\ Specs(g) \subseteq Declared("subkind")
    /\ "disjoint" \in Mods(g)
    /\ Specializers(K, "subkind") \subseteq Specs(g)

\* genset g completes the Role pattern of K
RoleQualifies(K, g) ==
    /\ g.general = K
    /\ Cardinality(Specializers(K, "role")) >= 2
    /\ Specs(g) # {} /\ Specs(g) \subseteq Declared("role")
    /\ Specializers(K, "role") \subseteq Specs(g)

\* the found records and the diagnostics of a pattern that name Kind K, as lines
RecordLines(pattern, K) ==
    [found  |-> SelectSeq(all_found, LAMBDA f : f.pattern = pattern /\ f.kind = K),
     errors |-> SelectSeq(all_errors, LAMBDA e : e.pattern = pattern /\ e.message.args[2] = K)]

\* there is one found record, at genset g, and no record at a genset declared after g
OneFoundAt(pattern, K, g) ==
    LET r == RecordLines(pattern, K)
    IN  /\ Len(r.found) = 1
        /\ r.found[1].lineno = g.lineno
        /\ r.found[1].genset_name = g.name
        /\ \A i \in 1..Len(r.errors) : r.errors[i].lineno <= g.lineno

\* C16: for every Kind K the Subkind checker and the Role checker each emit at most one
\* found record; when some genset qualifies, the record is for the first genset in
\* declaration order that does, and no genset declared after it is evaluated (it gets
\* neither a found record nor a diagnostic); when none qualifies there is no record.
C16_FirstQualifying ==
    \A K \in Declared("kind") :
        /\ Called("check_subkind_pattern") =>
              /\ Len(RecordLines("Subkind Pattern", K).found) <= 1
              /\ \A g \in GensetDecls :
                    (SubkindQualifies(K, g)
                        /\ \A h \in GensetDecls : h.lineno < g.lineno => ~SubkindQualifies(K, h))
                    => OneFoundAt("Subkind Pattern", K, g)
              /\ (\A g \in GensetDecls : ~SubkindQualifies(K, g))
                    => RecordLines("Subkind Pattern", K).found = <<>>
        /\ Called("check_role_pattern") =>
              /\ Len(RecordLines("Role Pattern", K).found) <= 1
              /\ \A g \in GensetDecls :
                    (RoleQualifies(K, g)
                        /\ \A h \in GensetDecls : h.lineno < g.lineno => ~RoleQualifies(K, h))
                    => OneFoundAt("Role Pattern", K, g)
              /\ (\A g \in GensetDecls : ~RoleQualifies(K, g))
                    => RecordLines("Role Pattern", K).found = <<>>

\* both checkers have run on a model whose first genset completes the Subkind pattern
\* of K and whose second genset, over the same Subkinds and not disjoint, would get a
\* diagnostic if it were evaluated: there is the one found record and no diagnostic
C16_Witness ==
    /\ Called("check_role_pattern")
    /\ \E g, h \in GensetDecls :
          /\ g.lineno < h.lineno
          /\ SubkindQualifies("K", g)
          /\ h.general = "K" /\ Specs(h) = Specs(g) /\ "disjoint" \notin Mods(h)
          /\ OneFoundAt("Subkind Pattern", "K", g)
          /\ RecordLines("Subkind Pattern", "K").errors = <<>>

(***************************************************************************)
(* C17  Phase: which gensets yield a found record.                         *)
(***************************************************************************)
\* a disjoint genset whose general is the Kind K and whose specifics are at least two
\* declared Phases
PhaseGensetOf(K, g) ==
    /\ g.general = K
    /\ "disjoint" \in Mods(g)
    /\ Specs(g) \subseteq Declared("phase")
    /\ Cardinality(Specs(g)) >= 2

\* the Phase found records written for genset g
PhaseFoundFor(K, g) ==
    SelectSeq(all_found, LAMBDA f : /\ f.pattern = "Phase Pattern"
                                    /\ f.kind = K
                                    /\ f.lineno = g.lineno)

\* how many declarations of Phases list K in their specializes
PhaseSpecializations(K) ==
    Len(SelectSeq(Decls, LAMBDA d : /\ IsClass(d)
                                    /\ d.name \in Declared("phase")
                                    /\ K \in Range(d.specializes)))

RelatorPairs ==
    {f.roles : f \in FoundOf("Relator Pattern")}
        \cup {<<e.message.args[1], e.message.args[2]>> : e \in ErrorsOf("Relator Pattern")}

\* the last declaration of a Role named n
LastRole(n) ==
    Decls[CHOOSE i \in 1..Len(Decls) :
            /\ IsClass(Decls[i]) /\ Decls[i].stereotype = "role" /\ Decls[i].name = n
            /\ \A j \in (i + 1)..Len(Decls) :
                  ~(IsClass(Decls[j]) /\ Decls[j].stereotype = "role" /\ Decls[j].name = n)]

\* C18: every pair named by a Relator found record or diagnostic is made of two
\* different declared Roles, each with exactly one supertype, and the two supertypes
\* differ; so Roles of the same supertype, Roles with no or several supertypes, and
\* Kinds are in no record.
C18_PairsOfRoles ==
    Called("check_relator_pattern") =>
        \A p \in RelatorPairs :
            /\ p[1] # p[2]
            /\ {p[1], p[2]} \subseteq Declared("role")
            /\ Len(LastRole(p[1]).specializes) = 1
            /\ Len(LastRole(p[2]).specializes) = 1
            /\ LastRole(p[1]).specializes[1] # LastRole(p[2]).specializes[1]

\* the Relator mediates A and C, Roles of the same Kind, and a material relation links
\* them; the checker has returned records about other pairs and none about A and C
C18_Witness ==
    /\ Returned("check_relator_pattern")
    /\ {"A", "B", "C"} \subseteq Declared("role")
    /\ Mediators("A", "C") # {}
    /\ Materials("A", "C") # {}
    /\ RelatorPairs # {}
    /\ \A p \in RelatorPairs : {p[1], p[2]} # {"A", "C"}

(***************************************************************************)
(* C19  Relator: which members count as mediations.                        *)
(***************************************************************************)
\* the checker has found a Relator mediating the pair: it wrote a found record, or a
\* diagnostic that does not list the Relator as missing
TreatedAsMediated(A, B) ==
    \/ RelatorFoundFor(A, B) # <<>>
    \/ \E i \in 1..Len(RelatorErrorsFor(A, B)) :
          "Relator com mediação" \notin Range(RelatorErrorsFor(A, B)[i].message.args[3])

\* the classes named by the members of a Relator that are tagged mediation or carry
\* no stereotype
MediatedOrUntagged(r) ==
    {mb.target_class : mb \in {x \in Range(r.body) : x.stereotype \in {"mediation", None}}}

\* C19 as claimed: a member of a Relator counts as a mediation of its target when it is
\* tagged mediation and also when it carries no stereotype: a pair of Roles of distinct
\* Kinds is treated as mediated exactly when some Relator has such members for both.
C19_AsClaimed ==
    Returned("check_relator_pattern") =>
        \A A \in Declared("role") : \A B \in Declared("role") :
            RolesOfDistinctKinds(A, B) =>
                (TreatedAsMediated(A, B) <=>
                    \E r \in ClassDecls : r.stereotype = "relator"
                                            /\ {A, B} \subseteq MediatedOrUntagged(r))

\* C19 amended: only the members tagged mediation count: a pair of Roles of distinct
\* Kinds is treated as mediated exactly when some Relator has members tagged mediation
\* for both; members without a stereotype are ignored.
C19_TaggedOnly ==
    Returned("check_relator_pattern") =>
        \A A \in Declared("role") : \A B \in Declared("role") :
            RolesOfDistinctKinds(A, B) => (TreatedAsMediated(A, B) <=> Mediators(A, B) # {})

\* the only Relators of the model have untagged poles to A and B, a material relation
\* links A and B, and the diagnostic lists the Relator as missing
C19_Witness ==
    /\ Returned("check_relator_pattern")
    /\ \E r \in ClassDecls : r.stereotype = "relator"
    /\ \A r \in ClassDecls : r.stereotype = "relator" =>
          /\ {"A", "B"} \subseteq MediatedOrUntagged(r)
          /\ \A x \in Range(r.body) : x.stereotype = None
    /\ Materials("A", "B") # {}
    /\ Len(RelatorErrorsFor("A", "B")) = 1
    /\ RelatorErrorsFor("A", "B")[1].message.args[3] = <<"Relator com mediação">>

(***************************************************************************)
(* C20  Relator: which material relations link a pair.                     *)
(***************************************************************************)
\* the checker has found the material relation of the pair: it wrote a found record,
\* or a diagnostic that does not list the material relation as missing
TreatedAsLinked(A, B) ==
    \/ RelatorFoundFor(A, B) # <<>>
    \/ \E i \in 1..Len(RelatorErrorsFor(A, B)) :
          "relação @material externa" \notin Range(RelatorErrorsFor(A, B)[i].message.args[3])

\* C20: for a pair of Roles of distinct Kinds the material half is present if and only
\* if some material relation has exactly the two Roles as its endpoints, in either
\* order; a material relation with one endpoint outside the pair, or with both
\* endpoints equal, does not count.
C20_MaterialEndpoints ==
    Returned("check_relator_pattern") =>
        \A A \in Declared("role") : \A B \in Declared("role") :
            RolesOfDistinctKinds(A, B) =>
                (TreatedAsLinked(A, B) <=>
                    \E d \in Range(Decls) :
                        /\ d.type = "InlineRelation" /\ d.stereotype = "material"
                        /\ \/ (d.source_class = A /\ d.target_class = B)
                           \/ (d.source_class = B /\ d.target_class = A))

\* a Relator mediates A and B and the one material relation of the model has A at both
\* ends: the diagnostic lists the material relation as missing
C20_Witness ==
    /\ Returned("check_relator_pattern")
    /\ Mediators("A", "B") # {}
    /\ \E d \in Range(Decls) : /\ d.type = "InlineRelation"
                               /\ d.source_class = "A" /\ d.target_class = "A"
    /\ Len(RelatorErrorsFor("A", "B")) = 1
    /\ RelatorErrorsFor("A", "B")[1].message.args[3] = <<"relação @material externa">>

(***************************************************************************)
(* C21  Mode: both relations present, both targets declared Kinds.         *)
(***************************************************************************)
ModeDecls == {d \in ClassDecls : d.stereotype = "mode"}

\* the members of a class, none when it has no body
MembersOf(d) == IF IsNone(d, "body") THEN <<>> ELSE d.body

\* a relation of a class: a member with a target (an attribute has none)
IsRelation(r) == r.target_class # None

\* a relation is a characterization (externalDependence) when it is tagged so, in any
\* capitalisation, or when it has no stereotype tag and its name starts with
\* "character" (contains "external")
IsCharacterization(r) ==
    /\ IsRelation(r)
    /\ \/ r.stereotype \in {"characterization", "Characterization"}
       \/ r.stereotype = None /\ r.name \in {"characterizes", "Characterizes"}

IsExternalDependence(r) ==
    /\ IsRelation(r)
    /\ \/ r.stereotype \in {"externalDependence", "ExternalDependence", "externaldependence"}
       \/ r.stereotype = None /\ r.name \in {"externalLink", "dependsOnExternal"}

Characterizations(d) == {i \in 1..Len(MembersOf(d)) : IsCharacterization(MembersOf(d)[i])}

ExternalDependences(d) == {i \in 1..Len(MembersOf(d)) : IsExternalDependence(MembersOf(d)[i])}

\* the Mode has one characterization and one externalDependence member, with these targets
ModeRelates(d, target_char, target_ext) ==
    /\ \E i \in Characterizations(d) :
          Characterizations(d) = {i} /\ MembersOf(d)[i].target_class = target_char
    /\ \E i \in ExternalDependences(d) :
          ExternalDependences(d) = {i} /\ MembersOf(d)[i].target_class = target_ext

ModeFoundFor(m) == {f \in FoundOf("Mode Pattern") : f.mode_name = m}

ModeErrorsFor(m) == {e \in ErrorsOf("Mode Pattern") : e.message.args[1] = m}

ModeTargets == Declared("kind") \cup Declared("role") \cup {"C", None}

\* C21 as claimed: a Mode with a characterization and an externalDependence whose
\* targets are declared Kinds gets exactly one found record naming the Mode and the
\* two targets; with equal targets it also gets one coercion warning and nothing
\* else, with different targets it gets no diagnostic.
C21_AsClaimed ==
    Returned("check_mode_pattern") =>
        \A d \in ModeDecls : \A tc \in Declared("kind") : \A te \in Declared("kind") :
            ModeRelates(d, tc, te) =>
                /\ Count(all_found, LAMBDA f : f \in ModeFoundFor(d.name)) = 1
                /\ \A f \in ModeFoundFor(d.name) : f.characterizes = tc /\ f.depends_on = te
                /\ Count(all_errors, LAMBDA e : e \in ModeErrorsFor(d.name))
                       = IF tc = te THEN 1 ELSE 0
                /\ \A e \in ModeErrorsFor(d.name) : e.type = "Semantic Warning (Coercion)"

\* a member that is neither a characterization nor an externalDependence relation and
\* whose name matches one of the name heuristics: a relation with another stereotype
\* tag, or an attribute
Misnamed(r) ==
    /\ ~IsCharacterization(r) /\ ~IsExternalDependence(r)
    /\ NameStartsCharacter(r.name) \/ NameHasExternal(r.name)

NoMisnamed(d) == \A i \in 1..Len(MembersOf(d)) : ~Misnamed(MembersOf(d)[i])

\* C21 holds in the model for the Modes none of whose members is picked up by name
\* without being an untagged relation.
C21_ProperlyNamed ==
    Returned("check_mode_pattern") =>
        \A d \in ModeDecls : \A tc \in Declared("kind") : \A te \in Declared("kind") :
            (ModeRelates(d, tc, te) /\ NoMisnamed(d)) =>
                /\ Count(all_found, LAMBDA f : f \in ModeFoundFor(d.name)) = 1
                /\ \A f \in ModeFoundFor(d.name) : f.characterizes = tc /\ f.depends_on = te
                /\ Count(all_errors, LAMBDA e : e \in ModeErrorsFor(d.name))
                       = IF tc = te THEN 1 ELSE 0
                /\ \A e \in ModeErrorsFor(d.name) : e.type = "Semantic Warning (Coercion)"

(***************************************************************************)
(* C22  Mode: both relations present, a target that is not a declared Kind. *)
(***************************************************************************)
\* C22 as claimed: a Mode with a characterization and an externalDependence relation
\* of which a target is not a declared Kind gets exactly one diagnostic, the
\* invalid-target one, which the report classifies as incomplete, and no found record.
C22_AsClaimed ==
    Returned("check_mode_pattern") =>
        \A d \in ModeDecls : \A tc \in ModeTargets : \A te \in ModeTargets :
            (ModeRelates(d, tc, te) /\ ~({tc, te} \subseteq Declared("kind"))) =>
                /\ ModeFoundFor(d.name) = {}
                /\ Count(all_errors, LAMBDA e : e \in ModeErrorsFor(d.name)) = 1
                /\ \A e \in ModeErrorsFor(d.name) :
                      /\ e.type = "Invalid Target (Incomplete Pattern)"
                      /\ InIncomplete(e) /\ ~InCoercion(e)

C22_ProperlyNamed ==
    Returned("check_mode_pattern") =>
        \A d \in ModeDecls : \A tc \in ModeTargets : \A te \in ModeTargets :
            (ModeRelates(d, tc, te) /\ ~({tc, te} \subseteq Declared("kind")) /\ NoMisnamed(d)) =>
                /\ ModeFoundFor(d.name) = {}
                /\ Count(all_errors, LAMBDA e : e \in ModeErrorsFor(d.name)) = 1
                /\ \A e \in ModeErrorsFor(d.name) :
                      /\ e.type = "Invalid Target (Incomplete Pattern)"
                      /\ InIncomplete(e) /\ ~InCoercion(e)

(***************************************************************************)
(* C23  Mode: a relation of the pattern is missing.                        *)
(***************************************************************************)
\* the stereotypes of the pattern the Mode has no relation for, as the message lists them
AbsentStereotypes(d) ==
    (IF Characterizations(d) = {} THEN <<"@characterization">> ELSE <<>>)
        \o (IF ExternalDependences(d) = {} THEN <<"@externalDependence">> ELSE <<>>)

\* C23 as claimed: a Mode, with or without a body, that lacks a characterization or an
\* externalDependence relation gets exactly one diagnostic, of the incomplete type,
\* whose message lists exactly the stereotypes it lacks, and no found record.
C23_AsClaimed ==
    Returned("check_mode_pattern") =>
        \A d \in ModeDecls :
            AbsentStereotypes(d) # <<>> =>
                /\ ModeFoundFor(d.name) = {}
                /\ Count(all_errors, LAMBDA e : e \in ModeErrorsFor(d.name)) = 1
                /\ \A e \in ModeErrorsFor(d.name) :
                      /\ e.type = "Incomplete Pattern (Deduction Failure)"
                      /\ e.message = Msg("mode_missing", <<d.name, AbsentStereotypes(d)>>)

C23_ProperlyNamed ==
    Returned("check_mode_pattern") =>
        \A d \in ModeDecls :
            (AbsentStereotypes(d) # <<>> /\ NoMisnamed(d)) =>
                /\ ModeFoundFor(d.name) = {}
                /\ Count(all_errors, LAMBDA e : e \in ModeErrorsFor(d.name)) = 1
                /\ \A e \in ModeErrorsFor(d.name) :
                      /\ e.type = "Incomplete Pattern (Deduction Failure)"
                      /\ e.message = Msg("mode_missing", <<d.name, AbsentStereotypes(d)>>)

(***************************************************************************)
(* C24  Mode: the name heuristics and members with another stereotype tag. *)
(***************************************************************************)
\* the members of the Mode that carry a stereotype tag other than the two of the pattern
OtherTagged(d) ==
    {i \in 1..Len(MembersOf(d)) :
        LET r == MembersOf(d)[i]
        IN  r.stereotype # None /\ ~IsCharacterization(r) /\ ~IsExternalDependence(r)}

\* C24 as claimed: a member with another stereotype tag is never taken as the
\* characterization or the externalDependence relation: a Mode whose only relation
\* for one of the two stereotypes would be such a member is reported as lacking it.
C24_AsClaimed ==
    Returned("check_mode_pattern") =>
        \A d \in ModeDecls :
            (OtherTagged(d) # {} /\ AbsentStereotypes(d) # <<>>
                /\ \A i \in 1..Len(MembersOf(d)) : i \in OtherTagged(d) \/ ~Misnamed(MembersOf(d)[i])) =>
                /\ ModeFoundFor(d.name) = {}
                /\ \A e \in ModeErrorsFor(d.name) :
                      e.message = Msg("mode_missing", <<d.name, AbsentStereotypes(d)>>)

(***************************************************************************)
(* C25  RoleMixin: the three conditions on a genset are checked            *)
(*      independently.                                                     *)
(***************************************************************************)
\* the gensets of the RoleMixins that at least one declared Role specializes
RoleMixinGensets ==
    {g \in GensetDecls :
        g.general \in Declared("roleMixin") /\ Specializers(g.general, "role") # {}}

\* how many diagnostics of a type the RoleMixin checker has emitted for a genset
RoleMixinDiagnostics(g, type) ==
    Count(all_errors, LAMBDA e : /\ e.pattern = "RoleMixin Pattern"
                                 /\ e.type = type
                                 /\ e.message.args[1] = g.name
                                 /\ e.lineno = g.lineno)

RoleMixinRecords(g) ==
    Count(all_found, LAMBDA f : /\ f.pattern = "RoleMixin Pattern"
                                /\ f.genset_name = g.name
                                /\ f.lineno = g.lineno)

\* the conditions (a), (b), (c) a genset fails
LacksDisjoint(g) == "disjoint" \notin Mods(g)

FewSpecifics(g) == Cardinality(Specs(g)) < 2

HasNonRoles(g) == ~(Specs(g) \subseteq Declared("role"))

Bit(b) == IF b THEN 1 ELSE 0

\* C25: a genset of a RoleMixin that a Role specializes gets one "must be disjoint"
\* diagnostic exactly when it lacks `disjoint`, one "too few specifics" diagnostic
\* exactly when it has fewer than 2 specifics, one "specifics that are not Roles"
\* diagnostic exactly when a specific is not a declared Role; when it fails any of
\* the three it gets neither a found record nor a "missing Roles" diagnostic.
C25_IndependentChecks ==
    Returned("check_rolemixin_pattern") =>
        \A g \in RoleMixinGensets :
            /\ RoleMixinDiagnostics(g, "Semantic Error (Mandatory Constraint)") = Bit(LacksDisjoint(g))
            /\ RoleMixinDiagnostics(g, "Incomplete Pattern (Too Few Specifics)") = Bit(FewSpecifics(g))
            /\ RoleMixinDiagnostics(g, "Semantic Error (Type Violation)") = Bit(HasNonRoles(g))
            /\ (LacksDisjoint(g) \/ FewSpecifics(g) \/ HasNonRoles(g)) =>
                  /\ RoleMixinRecords(g) = 0
                  /\ RoleMixinDiagnostics(g, "Incomplete Pattern (Missing Specifics)") = 0

\* a genset fails the three conditions at once and gets its three diagnostics
C25_Witness ==
    /\ Returned("check_rolemixin_pattern")
    /\ \E g \in RoleMixinGensets :
          /\ LacksDisjoint(g) /\ FewSpecifics(g) /\ HasNonRoles(g)
          /\ RoleMixinDiagnostics(g, "Semantic Error (Mandatory Constraint)") = 1
          /\ RoleMixinDiagnostics(g, "Incomplete Pattern (Too Few Specifics)") = 1
          /\ RoleMixinDiagnostics(g, "Semantic Error (Type Violation)") = 1
          /\ RoleMixinRecords(g) = 0

(***************************************************************************)
(* C26  RoleMixin: coverage of the specializing Roles, genset by genset.   *)
(***************************************************************************)
\* the Roles specializing the genset's RoleMixin that its specifics leave out
UncoveredRoles(g) == Specializers(g.general, "role") \ Specs(g)

\* C26: a genset of a RoleMixin that passes the three conditions gets a found record
\* exactly when its specifics include every Role specializing the RoleMixin, and
\* otherwise exactly one "missing Roles" diagnostic listing the Roles left out; it gets
\* this whatever the other gensets of the RoleMixin are.
C26_Coverage ==
    Returned("check_rolemixin_pattern") =>
        \A g \in RoleMixinGensets :
            ~(LacksDisjoint(g) \/ FewSpecifics(g) \/ HasNonRoles(g)) =>
                /\ RoleMixinRecords(g) = Bit(UncoveredRoles(g) = {})
                /\ RoleMixinDiagnostics(g, "Incomplete Pattern (Missing Specifics)")
                       = Bit(UncoveredRoles(g) # {})
                /\ \A e \in ErrorsOf("RoleMixin Pattern") :
                       (e.type = "Incomplete Pattern (Missing Specifics)"
                           /\ e.message.args[1] = g.name) =>
                           e.message.args[2] = Sorted(UncoveredRoles(g))
                /\ \A f \in FoundOf("RoleMixin Pattern") :
                       f.genset_name = g.name =>
                           f.rolemixin = g.general /\ f.roles_grouped = Sorted(Specs(g))

\* one RoleMixin gets two found records, one for each of its two gensets
C26_Witness ==
    /\ Returned("check_rolemixin_pattern")
    /\ \E g1 \in RoleMixinGensets : \E g2 \in RoleMixinGensets :
          /\ g1.general = g2.general /\ g1.lineno < g2.lineno
          /\ RoleMixinRecords(g1) = 1 /\ RoleMixinRecords(g2) = 1
          /\ Len(RoleMixinFoundFor(g1.general)) = 2

(***************************************************************************)
(* C27  Report: the order of the found lines of section (1).               *)
(***************************************************************************)
\* C27 as claimed: the found lines of the report are in the order of their line
\* numbers, whichever checker found the pattern.
C27_AsClaimed ==
    pc = "reported" =>
        \A i \in 1..Len(output.found) : \A j \in 1..Len(output.found) :
            output.found[i].lineno < output.found[j].lineno => i < j

\* what the report does: its found lines are the found records of the checkers, one
\* line per record, in the order the checkers appended them
C27_InCallOrder ==
    pc = "reported" =>
        /\ Len(output.found) = Len(all_found)
        /\ \A i \in 1..Len(all_found) :
              /\ output.found[i].lineno = all_found[i].lineno
              /\ output.found[i].pattern = all_found[i].pattern

(***************************************************************************)
(* C28  A genset belongs to at most one of Subkind, Role and Phase.        *)
(***************************************************************************)
\* no two class declarations have the same name
UniqueClassNames ==
    \A i \in 1..Len(Decls) : \A j \in 1..Len(Decls) :
        (IsClass(Decls[i]) /\ IsClass(Decls[j]) /\ Decls[i].name = Decls[j].name) => i = j

NonEmptySpecifics == \A g \in GensetDecls : g.specifics # <<>>

\* the patterns among Subkind, Role and Phase with a found record or a diagnostic on
\* the genset's line
PatternsOf(g) ==
    {p \in {"Subkind Pattern", "Role Pattern", "Phase Pattern"} :
        \/ \E f \in FoundOf(p) : f.lineno = g.lineno
        \/ \E e \in ErrorsOf(p) : e.lineno = g.lineno}

\* the diagnostics of the two kinds a genset gets
MustBeDisjoint(g) ==
    \E e \in Range(all_errors) :
        /\ e.lineno = g.lineno
        /\ e.message.key \in {"subkind_genset_must_be_disjoint", "phase_genset_must_be_disjoint"}

MustNotBeDisjoint(g) ==
    \E e \in Range(all_errors) :
        e.lineno = g.lineno /\ e.message.key = "role_genset_must_not_be_disjoint"

\* C28: when the class names are unique and every genset has specifics, the found
\* records and diagnostics on a genset's line come from at most one of the Subkind,
\* Role and Phase checkers, and no genset is told both that it must and that it must
\* not be disjoint.
C28_OnePatternPerGenset ==
    (Returned("check_phase_pattern") /\ UniqueClassNames /\ NonEmptySpecifics) =>
        \A g \in GensetDecls :
            /\ Cardinality(PatternsOf(g)) <= 1
            /\ ~(MustBeDisjoint(g) /\ MustNotBeDisjoint(g))

\* a model with unique class names in which one genset is a Subkind candidate only and
\* another, disjoint, a Role candidate only
C28_Witness ==
    /\ pc = "done" /\ UniqueClassNames /\ NonEmptySpecifics
    /\ \E g1 \in GensetDecls : \E g2 \in GensetDecls :
          /\ PatternsOf(g1) = {"Subkind Pattern"} /\ MustBeDisjoint(g1)
          /\ PatternsOf(g2) = {"Role Pattern"} /\ MustNotBeDisjoint(g2)

\* without unique names the property is lost: a genset over names declared both as
\* Subkinds and as Roles is a candidate of both checkers
C28_Homonyms ==
    /\ pc = "done" /\ ~UniqueClassNames
    /\ \E g \in GensetDecls : Cardinality(PatternsOf(g)) = 2

\* without specifics a genset is a candidate of the Subkind and the Phase checker
C28_NoSpecifics ==
    /\ pc = "done" /\ UniqueClassNames
    /\ \E g \in GensetDecls : g.specifics = <<>> /\ Cardinality(PatternsOf(g)) = 2

(***************************************************************************)
(* C29  The lexer's line numbers start at 1 for every input.               *)
(***************************************************************************)
\* the line of each token of a text, counted from line 1 of the text: one more than the
\* newlines before it
LinesOf(code) ==
    LET words == SelectSeq(Indices(code), LAMBDA i : code[i] # "\n")
    IN  [k \in 1..Len(words) |->
            1 + Cardinality({i \in 1..words[k] : code[i] = "\n"})]

\* an entry point has gone through its whole text
ScanOver == pc = "idle" /\ scan.runs > 0

\* C29 as claimed: whatever entry point processed a text, and whatever was processed
\* before, the lines reported for its tokens are the lines of the text counted from 1.
C29_AsClaimed == ScanOver => scan.lines = LinesOf(lexer.lexdata)

\* the property holds for the three entry points that assign lexer.lineno = 1
C29_ResettingEntries ==
    (ScanOver /\ scan.entry # "tests.run_lexer_test") => scan.lines = LinesOf(lexer.lexdata)

\* and for the first text a process handles, whatever the entry point
C29_FirstRun == (ScanOver /\ scan.runs = 1) => scan.lines = LinesOf(lexer.lexdata)

(***************************************************************************)
(* C30  Report: the line of a Relator found record.                        *)
(***************************************************************************)
\* C30 as claimed: the report line of every Relator found record names the two
\* mediated Roles the checker stored in the record, and the record's relator.
C30_AsClaimed ==
    pc = "reported" =>
        \A i \in 1..Len(all_found) :
            all_found[i].pattern = "Relator Pattern" =>
                /\ output.found[i].details.shape = "Roles mediadas"
                /\ output.found[i].details.role1 = all_found[i].roles[1]
                /\ output.found[i].details.role2 = all_found[i].roles[2]
                /\ output.found[i].details.relator = all_found[i].relator_name

\* what the report does: the line names the record's relator, and None for both Roles
C30_RolesNotRead ==
    pc = "reported" =>
        \A i \in 1..Len(all_found) :
            all_found[i].pattern = "Relator Pattern" =>
                /\ output.found[i].details.relator = all_found[i].relator_name
                /\ output.found[i].details.role1 = None
                /\ output.found[i].details.role2 = None

====
